---------------------------- MODULE Spec2Model ----------------------------
(***************************************************************************)
(* A model of protolake's publishing tools (templates/tools):              *)
(*   - the Maven version ledger (maven-metadata.xml and                    *)
(*     maven-metadata-local.xml) kept by update_maven_metadata and         *)
(*     update_local_maven_metadata;                                        *)
(*   - the npm publish dispatch of npm_publisher.py,                       *)
(*     npm_publisher_generated.py and proto_loader_publisher_generated.py, *)
(*     with the workspace installer of pkg_editor.py.                      *)
(***************************************************************************)
EXTENDS Integers, Sequences, FiniteSets, TLC

VARIABLES
    ledger,     \* ledger file path -> the metadata document stored there
    history,    \* the recordVersion calls made so far, oldest first
    prevLedger, \* the ledger as it was before the latest call
    world,      \* what outlives a publisher run: caches, links, registries, targets
    before,     \* the world as it was when the current run was invoked
    run,        \* the publisher run in progress: its position, locals and output
    runs        \* publisher runs invoked so far

ledgerVars == <<ledger, history, prevLedger>>
dispatchVars == <<world, before, run, runs>>
vars == <<ledger, history, prevLedger, world, before, run, runs>>

-----------------------------------------------------------------------------
(* Bounds.                                                                 *)

\* Versions are <<major, minor, patch>> with major in 0..MaxMajor.
MaxMajor == 1
\* recordVersion calls in one behaviour.
MaxCalls == 3
\* Publisher runs in one behaviour.
MaxRuns == 2
\* Comma-separated fields in a JS_TARGETS value.
MaxTargets == 2

-----------------------------------------------------------------------------
(* Versions, coordinates and documents.                                    *)

\* "0.0.0", "0.9.0", "1.0.0", "1.9.0", ...: single-digit components, so that
\* Python's string order (sorted) is the component-wise order used here.
Versions == {<<m, n, 0>> : m \in 0..MaxMajor, n \in {0, 9}}

\* The text of an XML element that is not there (find() returned None).
None == <<>>

\* A group id is its dot-separated segments: "com.acme" is <<"com", "acme">>.
GroupIds == {<<"com", "acme">>, <<"acme">>}
ArtifactIds == {"user-proto"}
LedgerKeys == GroupIds \X ArtifactIds

\* Semantic-version order, which the code never consults.
VersionLess(a, b) ==
    \/ a[1] < b[1]
    \/ a[1] = b[1] /\ a[2] < b[2]
    \/ a[1] = b[1] /\ a[2] = b[2] /\ a[3] < b[3]

\* No maven-metadata file at the path.
AbsentDoc ==
    [exists |-> FALSE, wellFormed |-> TRUE, groupId |-> None, artifactId |-> "",
     versioning |-> FALSE, latest |-> None, release |-> None,
     versionsElem |-> FALSE, versions |-> <<>>]

\* A file at the path that is not well-formed XML.
MalformedDoc == [AbsentDoc EXCEPT !.exists = TRUE, !.wellFormed = FALSE]

\* A document another tool left behind: versions listed, no latest/release.
ForeignDoc(key) ==
    [exists |-> TRUE, wellFormed |-> TRUE, groupId |-> key[1], artifactId |-> key[2],
     versioning |-> TRUE, latest |-> None, release |-> None,
     versionsElem |-> TRUE, versions |-> << <<0, 0, 0>> >>]

\* The versions a document lists, as a set.
Listed(doc) == {doc.versions[i] : i \in 1..Len(doc.versions)}

NoDuplicates(s) == \A i, j \in 1..Len(s) : s[i] = s[j] => i = j

-----------------------------------------------------------------------------
(* maven_publisher.py                                                      *)

\* group_id.replace('.', '/') as path components.
GroupPath(group_id) == group_id

\* artifact_dir.parent of publish_to_local_repo: repo/<group path>/<artifact>.
ArtifactBase(group_id, artifact_id) == GroupPath(group_id) \o <<artifact_id>>

MetadataPath(group_id, artifact_id) ==
    ArtifactBase(group_id, artifact_id) \o <<"maven-metadata.xml">>

\* artifact_dir.parent.name: the last component of the group path.
ParentName(artifact_base) == artifact_base[Len(artifact_base) - 1]

ParsesAnything(doc) == FALSE

\* ET.parse(metadata_path) raises ParseError on a file that is not XML.
ParseFails(doc) == doc.exists /\ ~doc.wellFormed

AlwaysAppend(version_list, version) == Append(version_list, version)

\* "Add version if not already present".
AddIfAbsent(version_list, version) ==
    IF \E i \in 1..Len(version_list) : version_list[i] = version
    THEN version_list
    ELSE Append(version_list, version)

HighestVersion(doc, version) ==
    IF \E v \in Listed(doc) : VersionLess(version, v)
    THEN CHOOSE v \in Listed(doc) : \A w \in Listed(doc) : ~VersionLess(v, w)
    ELSE version

\* latest.text = version; release.text = version.
PointerText(doc, version) == version

update_maven_metadata(doc, artifact_base, artifact_id, version) ==
    LET root == IF doc.exists
                THEN doc
                ELSE [AbsentDoc EXCEPT !.exists = TRUE,
                                       !.groupId = <<ParentName(artifact_base)>>,
                                       !.artifactId = artifact_id]
    IN  [root EXCEPT !.versioning = TRUE,
                     !.latest = PointerText(root, version),
                     !.release = PointerText(root, version),
                     !.versionsElem = TRUE,
                     !.versions = AddIfAbsent(root.versions, version)]

-----------------------------------------------------------------------------
(* publisher_utils_generated.py                                            *)

LocalMetadataPath(group_id, artifact_id) ==
    group_id \o <<artifact_id, "maven-metadata-local.xml">>

\* sorted(versions): the ascending sequence of a set of versions.
RECURSIVE Sorted(_)
Sorted(S) ==
    IF S = {} THEN <<>>
    ELSE LET least == CHOOSE v \in S : \A w \in S : ~VersionLess(w, v)
         IN  <<least>> \o Sorted(S \ {least})

\* An Element is true when it has children.
ElementTruth(doc) ==
    doc.versioning /\ (doc.latest # None \/ doc.release # None \/ doc.versionsElem)

IgnoreExisting(doc) == {}

\* "Read existing versions": every <version> below <versioning>.
ReadExistingVersions(doc) ==
    IF doc.exists /\ ElementTruth(doc) THEN Listed(doc) ELSE {}

create_maven_metadata(group_id, artifact_id, versions, latest_version) ==
    [exists |-> TRUE, wellFormed |-> TRUE, groupId |-> group_id,
     artifactId |-> artifact_id,
     versioning |-> TRUE, latest |-> latest_version, release |-> latest_version,
     versionsElem |-> TRUE, versions |-> Sorted(versions)]

update_local_maven_metadata(doc, group_id, artifact_id, new_version) ==
    create_maven_metadata(group_id, artifact_id,
                          ReadExistingVersions(doc) \cup {new_version},
                          new_version)

-----------------------------------------------------------------------------
(* The ledger files and the two recordVersion operations.                  *)

LedgerPaths ==
    {MetadataPath(k[1], k[2]) : k \in LedgerKeys}
        \cup {LocalMetadataPath(k[1], k[2]) : k \in LedgerKeys}

NoLedgers == [p \in LedgerPaths |-> AbsentDoc]

InitLedgers ==
    {NoLedgers}
        \cup {[NoLedgers EXCEPT ![MetadataPath(k[1], k[2])] = ForeignDoc(k)] :
                  k \in LedgerKeys}
        \cup {[NoLedgers EXCEPT ![LocalMetadataPath(k[1], k[2])] = ForeignDoc(k)] :
                  k \in LedgerKeys}

Call(path, version) == [path |-> path, version |-> version]

\* publish_to_local_repo's last step: update_maven_metadata(artifact_dir.parent, ...),
\* for a call that returns.
RecordVersionMaven(group_id, artifact_id, version) ==
    LET path == MetadataPath(group_id, artifact_id)
    IN  /\ Len(history) < MaxCalls
        /\ ~ParseFails(ledger[path])
        /\ ledger' = [ledger EXCEPT ![path] =
               update_maven_metadata(ledger[path],
                                     ArtifactBase(group_id, artifact_id),
                                     artifact_id, version)]
        /\ history' = Append(history, Call(path, version))
        /\ prevLedger' = ledger
        /\ UNCHANGED dispatchVars

RecordVersionLocal(group_id, artifact_id, version) ==
    LET path == LocalMetadataPath(group_id, artifact_id)
    IN  /\ Len(history) < MaxCalls
        /\ ~ParseFails(ledger[path])
        /\ ledger' = [ledger EXCEPT ![path] =
               update_local_maven_metadata(ledger[path], group_id,
                                           artifact_id, version)]
        /\ history' = Append(history, Call(path, version))
        /\ prevLedger' = ledger
        /\ UNCHANGED dispatchVars

LedgerNext ==
    \E k \in LedgerKeys, v \in Versions :
        \/ RecordVersionMaven(k[1], k[2], v)
        \/ RecordVersionLocal(k[1], k[2], v)

-----------------------------------------------------------------------------
(* Two recordVersion calls in flight at once. Neither function takes a     *)
(* lock: each reads the file, inserts into what it read, and writes.       *)

\* recordVersion calls in flight at once.
MaxCallers == 2

Callers == 1..MaxCallers

RecordFunctions == {"update_maven_metadata", "update_local_maven_metadata"}

IdleCaller ==
    [pc |-> "idle", function |-> "", group_id |-> <<>>, artifact_id |-> "",
     version |-> <<>>, path |-> <<>>, doc |-> AbsentDoc]

\* The call is entered: the ledger path is computed.
BeginRecord(c, function, group_id, artifact_id, version) ==
    /\ run[c].pc = "idle"
    /\ run' = [run EXCEPT ![c] =
                  [pc |-> "load", function |-> function, group_id |-> group_id,
                   artifact_id |-> artifact_id, version |-> version,
                   path |-> IF function = "update_maven_metadata"
                            THEN MetadataPath(group_id, artifact_id)
                            ELSE LocalMetadataPath(group_id, artifact_id),
                   doc |-> AbsentDoc]]
    /\ UNCHANGED <<ledger, history, prevLedger, world, before, runs>>

\* if metadata_path.exists(): tree = ET.parse(metadata_path)
LoadLedger(c) ==
    /\ run[c].pc = "load"
    /\ run' = [run EXCEPT ![c].doc = ledger[run[c].path], ![c].pc = "insert"]
    /\ UNCHANGED <<ledger, history, prevLedger, world, before, runs>>

\* The new version is put into what was read.
InsertVersion(c) ==
    /\ run[c].pc = "insert"
    /\ LET r == run[c]
       IN  run' = [run EXCEPT
                      ![c].doc =
                          IF r.function = "update_maven_metadata"
                          THEN update_maven_metadata(r.doc,
                                   ArtifactBase(r.group_id, r.artifact_id),
                                   r.artifact_id, r.version)
                          ELSE update_local_maven_metadata(r.doc, r.group_id,
                                   r.artifact_id, r.version),
                      ![c].pc = "write"]
    /\ UNCHANGED <<ledger, history, prevLedger, world, before, runs>>

\* tree.write(metadata_path, ...) / metadata_file.write_text(metadata_content)
WriteLedger(c) ==
    /\ run[c].pc = "write"
    /\ ledger' = [ledger EXCEPT ![run[c].path] = run[c].doc]
    /\ prevLedger' = ledger
    /\ history' = Append(history, Call(run[c].path, run[c].version))
    /\ run' = [run EXCEPT ![c].pc = "done"]
    /\ UNCHANGED <<world, before, runs>>

RaceNext ==
    \/ \E c \in Callers, f \in RecordFunctions, k \in LedgerKeys, v \in Versions :
           BeginRecord(c, f, k[1], k[2], v)
    \/ \E c \in Callers : LoadLedger(c)
    \/ \E c \in Callers : InsertVersion(c)
    \/ \E c \in Callers : WriteLedger(c)

-----------------------------------------------------------------------------
(* Text helpers. A package name, a coordinates line is a sequence of       *)
(* one-character strings.                                                  *)

\* s.replace(old, new) for one-character old and new.
Replace(s, old, new) == [i \in 1..Len(s) |-> IF s[i] = old THEN new ELSE s[i]]

\* s.replace(old, '').
Remove(s, old) == SelectSeq(s, LAMBDA c : c # old)

HasChar(s, ch) == \E i \in 1..Len(s) : s[i] = ch

LastIndexOf(s, ch) == CHOOSE i \in 1..Len(s) : s[i] = ch /\ \A j \in (i + 1)..Len(s) : s[j] # ch

\* coordinates.rsplit('@', 1) when the separator occurs: <<head, tail>>.
RSplit(s, ch) ==
    LET i == LastIndexOf(s, ch)
    IN  <<SubSeq(s, 1, i - 1), SubSeq(s, i + 1, Len(s))>>

-----------------------------------------------------------------------------
(* pkg_editor.py: the manifest and .gitignore of a target project.         *)

WorkspaceGlob == "protolake/*"
IgnoreEntry == "protolake/"

\* package.json of a target. kind: "missing" (no file), "invalid" (not JSON),
\* "nonobject" (JSON, but not an object at top level), "object".
\* shape is the type of its "workspaces" field: "absent", "list", "dict" or
\* "other"; packages is the type of workspaces.packages in the dict form;
\* items is the list of globs (of the list form or of the packages list).
Manifest(kind, shape, packages, items) ==
    [kind |-> kind, shape |-> shape, packages |-> packages, items |-> items]

InList(items, glob) == \E i \in 1..Len(items) : items[i] = glob

AppendGlobAlways(items, glob) == Append(items, glob)

\* "if glob not in workspaces: workspaces.append(glob)".
AppendGlob(items, glob) == IF InList(items, glob) THEN items ELSE Append(items, glob)

\* add_workspace_entry's outcome: "ok" (True, manifest rewritten), "error"
\* (False, file untouched) or "raise" (pkg.get on a value that has no get).
add_workspace_entry(manifest, glob) ==
    CASE manifest.kind = "missing" -> [outcome |-> "error", manifest |-> manifest]
      [] manifest.kind = "invalid" -> [outcome |-> "error", manifest |-> manifest]
      [] manifest.kind = "nonobject" -> [outcome |-> "raise", manifest |-> manifest]
      [] manifest.kind = "object" /\ manifest.shape = "absent" ->
            [outcome |-> "ok",
             manifest |-> [manifest EXCEPT !.shape = "list", !.items = <<glob>>]]
      [] manifest.kind = "object" /\ manifest.shape = "list" ->
            [outcome |-> "ok",
             manifest |-> [manifest EXCEPT !.items = AppendGlob(@, glob)]]
      [] manifest.kind = "object" /\ manifest.shape = "dict"
                                  /\ manifest.packages = "absent" ->
            [outcome |-> "ok",
             manifest |-> [manifest EXCEPT !.packages = "list", !.items = <<glob>>]]
      [] manifest.kind = "object" /\ manifest.shape = "dict"
                                  /\ manifest.packages = "list" ->
            [outcome |-> "ok",
             manifest |-> [manifest EXCEPT !.items = AppendGlob(@, glob)]]
      [] OTHER -> [outcome |-> "error", manifest |-> manifest]

\* .gitignore: exists; lines is read().splitlines(); nl says the text ends
\* with a newline.
NoGitignore == [exists |-> FALSE, lines |-> <<>>, nl |-> FALSE]

ensure_gitignore(gi, entry) ==
    LET existing_lines == IF gi.exists THEN gi.lines ELSE <<>>
    IN  IF InList(existing_lines, entry)
        THEN gi
        ELSE [exists |-> TRUE,
              lines |-> existing_lines
                          \o (IF existing_lines # <<>>
                                 /\ existing_lines[Len(existing_lines)] # ""
                                 /\ gi.nl
                              THEN <<"">> ELSE <<>>)
                          \o <<entry>>,
              nl |-> TRUE]

\* flat_name = package_name.replace('@', '').replace('/', '-').
FlatName(package_name) == Replace(Remove(package_name, "@"), "/", "-")

NoDir == [exists |-> FALSE, files |-> {}]
Dir(files) == [exists |-> TRUE, files |-> files]

\* A target project: its package.json, its .gitignore and what lies under
\* protolake/<flat name>.
\* install_package_to_workspace: rmtree + copytree, then the manifest, then
\* .gitignore. outcome: "ok" (True), "error" (False) or "raise".
install_package_to_workspace(pkg_files, package_name, target) ==
    LET flat_name == FlatName(package_name)
        copied == [target EXCEPT !.protolake[flat_name] = Dir(pkg_files)]
        entry == add_workspace_entry(target.manifest, WorkspaceGlob)
    IN  IF entry.outcome # "ok"
        THEN [outcome |-> entry.outcome, target |-> copied]
        ELSE [outcome |-> "ok",
              target |-> [copied EXCEPT
                             !.manifest = entry.manifest,
                             !.gitignore = ensure_gitignore(@, IgnoreEntry)]]

-----------------------------------------------------------------------------
(* The publishers' inputs.                                                 *)

Publishers ==
    {"npm_publisher", "npm_publisher_generated", "proto_loader_publisher_generated"}

\* The modes the specification enumerates.
PublishModes ==
    {"skip", "link", "local-registry", "file", "pack", "workspace", "registry"}

\* NPM_PUBLISH_MODE not in the environment.
Unset == "<unset>"

\* Values of NPM_PUBLISH_MODE: a mode, a value that is no mode, or unset.
ModeValues == PublishModes \cup {"dry-run", Unset}

\* "@a/b-c" and "@a-b/c": two scoped names.
PackageNames ==
    {<<"@", "a", "/", "b", "-", "c">>, <<"@", "a", "-", "b", "/", "c">>}
PackageVersions == {<<"1">>}

\* The coordinates file: "<name>@<version>", or a line without "@".
CoordinatesTexts ==
    {n \o <<"@">> \o v : n \in PackageNames, v \in PackageVersions} \cup {<<"c">>}

\* A bundle file. tar: "ok" (extracts to one package directory holding
\* files), "corrupt" (tar exits non-zero) or "empty" (extracts to nothing).
Bundle(id, tar, files) == [id |-> id, tar |-> tar, files |-> files]
NoBundle == Bundle("", "", {})
Bundles ==
    {Bundle("new.tgz", "ok", {"package.json", "index.js"}),
     Bundle("old.tgz", "ok", {"package.json", "legacy.js"}),
     Bundle("bad.tgz", "corrupt", {}),
     Bundle("empty.tgz", "empty", {})}

\* An external process's exit status.
ExitStatuses == {0, 1}

NpmDefaultRegistry == "https://registry.npmjs.org/"
LocalRegistryDefault == "http://localhost:4873"
\* Values of NPM_REGISTRY (Unset: not in the environment).
NpmRegistryValues == {Unset, "http://verdaccio:4873"}
\* Values of NPM_REGISTRY_URL, NPM_REGISTRY_TOKEN and REGISTRY_TOKEN; "" also
\* stands for the variable not being set (os.environ.get(name, '')).
NpmRegistryUrlValues == {"", "https://npm.pkg.dev/acme"}
NpmRegistryTokenValues == {"", "npm-token"}
RegistryTokenValues == {"", "token"}
RegistryUrls ==
    {NpmDefaultRegistry, LocalRegistryDefault, "http://verdaccio:4873",
     "https://npm.pkg.dev/acme"}

\* pypi_publisher_generated.py: --repo, --index-url ("" when not given) and
\* the wheel.
PypiRepoValues == {"~/.cache/pip/simple", "https://pypi.pkg.dev/acme"}
PypiIndexUrlValues == {"", "https://upload.pypi.org/legacy/"}
WheelName == "acme_proto-1-py3-none-any.whl"

\* args.repo.startswith('https://') or args.repo.startswith('http://')
IsHttpUrl(repo) == repo \in {"https://pypi.pkg.dev/acme", "https://upload.pypi.org/legacy/"}

\* Target project roots and the package.json each starts with.
TargetDirs == {"app", "bare", "broken", "odd"}
InitialManifest(dir) ==
    CASE dir = "app" -> Manifest("object", "list", "absent", <<"packages/*">>)
      [] dir = "bare" -> Manifest("missing", "absent", "absent", <<>>)
      [] dir = "broken" -> Manifest("invalid", "absent", "absent", <<>>)
      [] dir = "odd" -> Manifest("nonobject", "absent", "absent", <<>>)

\* A JS_TARGETS value as its comma-separated fields; <<>> is the variable
\* unset or empty, a field "" is an empty field.
RECURSIVE SeqsUpTo(_, _)
SeqsUpTo(S, n) ==
    IF n = 0 THEN {<<>>}
    ELSE LET shorter == SeqsUpTo(S, n - 1)
         IN  shorter \cup {Append(q, x) : q \in shorter, x \in S}

JsTargetsValues ==
    SeqsUpTo(TargetDirs, MaxTargets) \cup {<<"">>, <<"", "app">>}

\* not js_targets_str.strip()
IsBlank(fields) == fields = <<>> \/ fields = <<"">>

\* [t.strip() for t in ....split(',') if t.strip()]
SplitTargets(fields) == SelectSeq(fields, LAMBDA t : t # "")

-----------------------------------------------------------------------------
(* The world the publishers write to.                                      *)

\* dest = packages_dir / package_name.replace('/', '-') / version
FileDest(package_name, version) == <<Replace(package_name, "/", "-"), version>>

\* pack_name = f"{package_name.replace('/', '-')}-{version}.tgz"
PackName(package_name, version) ==
    Replace(package_name, "/", "-") \o <<"-">> \o version \o <<".tgz">>

FileDests == {FileDest(n, v) : n \in PackageNames, v \in PackageVersions}
PackNames == {PackName(n, v) : n \in PackageNames, v \in PackageVersions}
FlatNames == {FlatName(n) : n \in PackageNames}

InitialTarget(dir) ==
    [manifest |-> InitialManifest(dir),
     gitignore |-> IF dir = "app"
                   THEN [exists |-> TRUE, lines |-> <<"node_modules/">>, nl |-> TRUE]
                   ELSE NoGitignore,
     protolake |-> [f \in FlatNames |-> NoDir]]

InitialWorld ==
    [npmPackages |-> [d \in FileDests |-> NoDir],       \* ~/.proto-lake/npm-packages
     npmPacks |-> [n \in PackNames |-> NoBundle],       \* ~/.proto-lake/npm-packs
     linked |-> {},                                     \* names npm link registered
     npmConfigRegistry |-> NpmDefaultRegistry,          \* npm config get registry
     registries |-> [u \in RegistryUrls |-> {}],        \* name@version each one holds
     targets |-> [d \in TargetDirs |-> InitialTarget(d)],
     mavenRepo |-> {},                                  \* <<group path, artifact, version>> holding a jar and a pom
     archives |-> {},                                   \* what the bundlers wrote at --output
     pypiLocal |-> {},                                  \* wheels in the local simple index
     pypiRemote |-> {}]                                 \* <<url, wheel>> uploaded

IdleRun ==
    [pc |-> "idle", publisher |-> "", envMode |-> "", package_name |-> <<>>,
     version |-> <<>>, bundle |-> NoBundle, publish_mode |-> "", result |-> "",
     output |-> <<>>, events |-> <<>>, js_targets_str |-> <<>>,
     js_targets |-> <<>>, idx |-> 0,
     attempts |-> <<>>, all_ok |-> TRUE, registry_url |-> "", token |-> "",
     nonzero |-> {}]

\* A printed line: its level, the variables and paths it names, its text.
Line(level, names, text) == [level |-> level, names |-> names, text |-> text]

\* A side effect outside the run's temporary directory, or a process run.
Event(op, arg) == [op |-> op, arg |-> arg]

-----------------------------------------------------------------------------
(* publish_npm_package / publish_proto_loader_package, step by step.       *)

\* os.environ.get('NPM_PUBLISH_MODE', <default>)
DefaultMode(publisher) ==
    IF publisher = "proto_loader_publisher_generated" THEN "file" ELSE "link"

\* The modes a publisher's if/elif chain has a branch for.
BranchesOf(publisher) ==
    CASE publisher = "npm_publisher" ->
            {"link", "local-registry", "file", "pack", "registry"}
      [] publisher = "npm_publisher_generated" -> PublishModes
      [] publisher = "proto_loader_publisher_generated" ->
            {"skip", "file", "link", "workspace", "registry"}

FallBackToDefault(publisher, value) ==
    IF value \in BranchesOf(publisher) THEN value ELSE DefaultMode(publisher)

EnvironGet(publisher, value) ==
    IF value = Unset THEN DefaultMode(publisher) ELSE value

Finish(r, result) == [r EXCEPT !.pc = "exited", !.result = result]
Say(r, line) == [r EXCEPT !.output = Append(@, line)]
Do(r, op, arg) == [r EXCEPT !.events = Append(@, Event(op, arg))]
\* subprocess.run(...) returned: the processes that exited non-zero are kept.
Exits(r, op, status) ==
    [r EXCEPT !.nonzero = IF status # 0 THEN @ \cup {op} ELSE @]
Ran(r, op, arg, status) == Exits(Do(r, op, arg), op, status)

AtBranch(mode) ==
    /\ run.pc = "dispatch"
    /\ run.publish_mode = mode
    /\ mode \in BranchesOf(run.publisher)

\* main(): a run starts with the environment's NPM_PUBLISH_MODE fixed.
Invoke(publisher, mode_value) ==
    /\ run.pc = "idle"
    /\ runs < MaxRuns
    /\ run' = [IdleRun EXCEPT !.pc = "read_coordinates",
                              !.publisher = publisher,
                              !.envMode = mode_value]
    /\ before' = world
    /\ runs' = runs + 1
    /\ UNCHANGED <<world, ledger, history, prevLedger>>

\* package_name, version = coordinates.rsplit('@', 1)
ReadCoordinates(text) ==
    /\ run.pc = "read_coordinates"
    /\ run' = IF HasChar(text, "@")
              THEN [run EXCEPT !.pc = "extract",
                               !.package_name = RSplit(text, "@")[1],
                               !.version = RSplit(text, "@")[2]]
              ELSE Finish(Say(run, Line("Traceback", {}, "ValueError")), "crash")
    /\ UNCHANGED <<world, before, runs, ledger, history, prevLedger>>

\* tar xzf into the temporary directory, pkg_dir = next(iterdir()), and the
\* mode read from the environment.
ExtractBundle(bundle) ==
    /\ run.pc = "extract"
    /\ run' =
         CASE bundle.tar = "corrupt" ->
                 Finish(Say(Exits(run, "tar xzf", 1),
                            Line("Error", {}, "Error extracting bundle")),
                        "failure")
           [] bundle.tar = "empty" ->
                 Finish(Say(run, Line("Traceback", {}, "StopIteration")), "crash")
           [] bundle.tar = "ok" ->
                 [run EXCEPT !.pc = "dispatch",
                             !.bundle = bundle,
                             !.publish_mode = EnvironGet(run.publisher, run.envMode)]
    /\ UNCHANGED <<world, before, runs, ledger, history, prevLedger>>

PublishSkip ==
    /\ AtBranch("skip")
    /\ run' = Finish(Say(run, Line("Info", {}, "JS publishing skipped")), "success")
    /\ UNCHANGED <<world, before, runs, ledger, history, prevLedger>>

\* npm link in the extracted package directory.
PublishLink(status) ==
    /\ AtBranch("link")
    /\ IF status = 0
       THEN /\ world' = [world EXCEPT !.linked = @ \cup {run.package_name}]
            /\ run' = Finish(Ran(run, "npm link", "", status), "success")
       ELSE /\ world' = world
            /\ run' = Finish(Say(Ran(run, "npm link", "", status),
                                 Line("Error", {}, "Failed to link")), "failure")
    /\ UNCHANGED <<before, runs, ledger, history, prevLedger>>

\* npm config set registry <NPM_REGISTRY>; its exit status is not looked at.
SetLocalRegistry(npm_registry, status) ==
    /\ AtBranch("local-registry")
    /\ LET registry_url == IF npm_registry = Unset THEN LocalRegistryDefault
                           ELSE npm_registry
       IN  /\ run' = [Ran(run, "npm config set registry", registry_url, status)
                         EXCEPT !.pc = "local_publish",
                                !.registry_url = registry_url]
           /\ world' = IF status = 0
                       THEN [world EXCEPT !.npmConfigRegistry = registry_url]
                       ELSE world
    /\ UNCHANGED <<before, runs, ledger, history, prevLedger>>

Coordinates(r) == <<r.package_name, r.version>>

\* npm publish: to the registry npm is configured with; a registry refuses a
\* version it already holds.
PublishLocalRegistry(status) ==
    /\ run.pc = "local_publish"
    /\ status = 0 => Coordinates(run) \notin world.registries[world.npmConfigRegistry]
    /\ IF status = 0
       THEN /\ world' = [world EXCEPT !.registries[world.npmConfigRegistry] =
                                         @ \cup {Coordinates(run)}]
            /\ run' = Finish(Ran(run, "npm publish", world.npmConfigRegistry, status),
                             "success")
       ELSE /\ world' = world
            /\ run' = Finish(Say(Ran(run, "npm publish", world.npmConfigRegistry, status),
                                 Line("Error", {}, "Failed to publish")), "failure")
    /\ UNCHANGED <<before, runs, ledger, history, prevLedger>>

CopyTreeOver(existing, files) == Dir(existing.files \cup files)

\* if dest.exists(): shutil.rmtree(dest); shutil.copytree(pkg_dir, dest)
ReplaceTree(existing, files) == Dir(files)

PublishFile ==
    /\ AtBranch("file")
    /\ LET dest == FileDest(run.package_name, run.version)
       IN  /\ world' = [world EXCEPT !.npmPackages[dest] =
                                        ReplaceTree(@, run.bundle.files)]
           /\ run' = Finish(Do(run, "copytree", "npm-packages"), "success")
    /\ UNCHANGED <<before, runs, ledger, history, prevLedger>>

\* shutil.copy2(bundle_path, pack_dir / pack_name)
PublishPack ==
    /\ AtBranch("pack")
    /\ LET pack_name == PackName(run.package_name, run.version)
       IN  /\ world' = [world EXCEPT !.npmPacks[pack_name] = run.bundle]
           /\ run' = Finish(Do(run, "copy2", "npm-packs"), "success")
    /\ UNCHANGED <<before, runs, ledger, history, prevLedger>>

NeverBlank(fields) == FALSE

\* The blank test on JS_TARGETS.
JsTargetsBlank(fields) == IsBlank(fields)

\* workspace mode reads JS_TARGETS.
ReadJsTargets(fields) ==
    /\ AtBranch("workspace")
    /\ run' = IF JsTargetsBlank(fields)
              THEN Finish(Say([run EXCEPT !.js_targets_str = fields],
                              Line("Warning", {"JS_TARGETS"},
                                   "workspace mode but JS_TARGETS not set")),
                          "success")
              ELSE [run EXCEPT !.pc = "targets",
                               !.js_targets_str = fields,
                               !.js_targets = SplitTargets(fields),
                               !.idx = 1,
                               !.all_ok = TRUE]
    /\ UNCHANGED <<world, before, runs, ledger, history, prevLedger>>

Attempt(target_dir, outcome) == [target |-> target_dir, outcome |-> outcome]

LastOutcomeOnly(all_ok, ok) == ok

\* all_ok stays True only while every install returns True.
AllOk(all_ok, ok) == all_ok /\ ok

\* One iteration of "for target_dir in js_targets".
InstallTarget ==
    /\ run.pc = "targets"
    /\ run.idx <= Len(run.js_targets)
    /\ LET target_dir == run.js_targets[run.idx]
           target == world.targets[target_dir]
           installed == install_package_to_workspace(run.bundle.files,
                                                     run.package_name, target)
           next == [run EXCEPT !.idx = @ + 1]
       IN  IF target.manifest.kind = "missing"
           THEN /\ world' = world
                /\ run' = Say([next EXCEPT !.attempts =
                                              Append(@, Attempt(target_dir, "skip"))],
                              Line("Warning", {target_dir}, "no package.json, skipping"))
           ELSE /\ world' = [world EXCEPT !.targets[target_dir] = installed.target]
                /\ run' =
                     CASE installed.outcome = "ok" ->
                             Say([Do(next, "install", target_dir) EXCEPT
                                     !.attempts = Append(@, Attempt(target_dir, "ok")),
                                     !.all_ok = AllOk(@, TRUE)],
                                 Line("Info", {target_dir}, "Installed"))
                       [] installed.outcome = "error" ->
                             Say([Do(next, "install", target_dir) EXCEPT
                                     !.attempts = Append(@, Attempt(target_dir, "error")),
                                     !.all_ok = AllOk(@, FALSE)],
                                 Line("Error", {target_dir}, "Failed to install"))
                       [] installed.outcome = "raise" ->
                             Finish(Say([Do(run, "install", target_dir) EXCEPT
                                            !.attempts =
                                               Append(@, Attempt(target_dir, "raise"))],
                                        Line("Traceback", {}, "AttributeError")),
                                    "crash")
    /\ UNCHANGED <<before, runs, ledger, history, prevLedger>>

\* return all_ok
ReturnAllOk ==
    /\ run.pc = "targets"
    /\ run.idx > Len(run.js_targets)
    /\ run' = Finish(run, IF run.all_ok THEN "success" ELSE "failure")
    /\ UNCHANGED <<world, before, runs, ledger, history, prevLedger>>

\* os.environ.get('NPM_REGISTRY_TOKEN', '') or os.environ.get('REGISTRY_TOKEN', '')
TokenOf(npm_registry_token, registry_token) ==
    IF npm_registry_token # "" THEN npm_registry_token ELSE registry_token

NothingMissing(registry_url, token) == {}

\* The variables the registry branch finds missing, first test first.
MissingVariables(registry_url, token) ==
    IF registry_url = "" THEN {"NPM_REGISTRY_URL"}
    ELSE IF token = "" THEN {"NPM_REGISTRY_TOKEN", "REGISTRY_TOKEN"}
    ELSE {}

\* registry mode: the two required variables, then .npmrc in the package
\* directory.
CheckRegistryConfig(registry_url, npm_registry_token, registry_token) ==
    /\ AtBranch("registry")
    /\ LET token == TokenOf(npm_registry_token, registry_token)
           missing == MissingVariables(registry_url, token)
           read == [run EXCEPT !.registry_url = registry_url, !.token = token]
       IN  run' = IF missing # {}
                  THEN Finish(Say(read, Line("Error", missing,
                                             "env var required for registry mode")),
                              "failure")
                  ELSE [Do(read, "write .npmrc", registry_url)
                           EXCEPT !.pc = "registry_publish"]
    /\ UNCHANGED <<world, before, runs, ledger, history, prevLedger>>

\* npm publish --registry=<url>
PublishRegistry(status) ==
    /\ run.pc = "registry_publish"
    /\ run.registry_url \in RegistryUrls
    /\ status = 0 => Coordinates(run) \notin world.registries[run.registry_url]
    /\ IF status = 0
       THEN /\ world' = [world EXCEPT !.registries[run.registry_url] =
                                         @ \cup {Coordinates(run)}]
            /\ run' = Finish(Ran(run, "npm publish", run.registry_url, status), "success")
       ELSE /\ world' = world
            /\ run' = Finish(Say(Ran(run, "npm publish", run.registry_url, status),
                                 Line("Error", {}, "Failed to publish")), "failure")
    /\ UNCHANGED <<before, runs, ledger, history, prevLedger>>

\* The final else of the chain.
UnknownMode ==
    /\ run.pc = "dispatch"
    /\ run.publish_mode \notin BranchesOf(run.publisher)
    /\ run' = Finish(Say(run, Line("Error", {}, "Unknown publish mode")), "failure")
    /\ UNCHANGED <<world, before, runs, ledger, history, prevLedger>>

\* pypi_publisher_generated.main(): a remote registry when --repo is a URL or
\* --index-url is given (REGISTRY_TOKEN required), else the local simple index.
PypiMain(repo, index_url, registry_token, status) ==
    /\ run.pc = "idle"
    /\ runs < MaxRuns
    /\ LET remote == IF IsHttpUrl(repo) THEN repo ELSE index_url
           started == [IdleRun EXCEPT !.publisher = "pypi_publisher_generated",
                                      !.publish_mode =
                                         IF remote # "" THEN "registry" ELSE "local-repo",
                                      !.registry_url = remote,
                                      !.token = IF remote # "" THEN registry_token ELSE ""]
       IN  IF remote # ""
           THEN IF registry_token = ""
                THEN /\ world' = world
                     /\ run' = Finish(Say(started, Line("Error", {"REGISTRY_TOKEN"},
                                                        "env var required for remote registry")),
                                      "failure")
                ELSE IF status = 0
                THEN /\ world' = [world EXCEPT !.pypiRemote = @ \cup {<<remote, WheelName>>}]
                     /\ run' = Finish(Ran(started, "upload", remote, status), "success")
                ELSE /\ world' = world
                     /\ run' = Finish(Say(Ran(started, "upload", remote, status),
                                          Line("Error", {}, "Error uploading")), "failure")
           ELSE /\ world' = [world EXCEPT !.pypiLocal = @ \cup {WheelName}]
                /\ run' = Finish(Do(started, "copy2", "simple-index"), "success")
    /\ before' = world
    /\ runs' = runs + 1
    /\ UNCHANGED <<ledger, history, prevLedger>>

\* sys.exit(0 if success else 1); an uncaught exception exits with 1 too.
ExitCode(r) == IF r.result = "success" THEN 0 ELSE 1

\* The process ends and its temporary directory with it.
Exit ==
    /\ run.pc = "exited"
    /\ run' = IdleRun
    /\ before' = world
    /\ UNCHANGED <<world, runs, ledger, history, prevLedger>>

DispatchNext ==
    \/ \E p \in Publishers, m \in ModeValues : Invoke(p, m)
    \/ \E text \in CoordinatesTexts : ReadCoordinates(text)
    \/ \E bundle \in Bundles : ExtractBundle(bundle)
    \/ PublishSkip
    \/ \E status \in ExitStatuses : PublishLink(status)
    \/ \E r \in NpmRegistryValues, status \in ExitStatuses : SetLocalRegistry(r, status)
    \/ \E status \in ExitStatuses : PublishLocalRegistry(status)
    \/ PublishFile
    \/ PublishPack
    \/ \E fields \in JsTargetsValues : ReadJsTargets(fields)
    \/ InstallTarget
    \/ ReturnAllOk
    \/ \E u \in NpmRegistryUrlValues, t \in NpmRegistryTokenValues,
          g \in RegistryTokenValues : CheckRegistryConfig(u, t, g)
    \/ \E status \in ExitStatuses : PublishRegistry(status)
    \/ UnknownMode
    \/ \E repo \in PypiRepoValues, index_url \in PypiIndexUrlValues,
          g \in RegistryTokenValues, status \in ExitStatuses :
          PypiMain(repo, index_url, g, status)
    \/ Exit

-----------------------------------------------------------------------------
(* The persisted files, one call at a time: maven_publisher.main, a call   *)
(* of update_local_maven_metadata, "pkg_editor.py workspace add" and a     *)
(* call of install_package_to_workspace. run is the latest call; its       *)
(* attempts field keeps the calls made so far.                             *)

\* How often x occurs in a list.
Count(items, x) == Cardinality({i \in 1..Len(items) : items[i] = x})

\* One call: what was called, on which ledger path or target, with which
\* package, and how it ended ("ok", "error" or "raise").
FileCall(op, target, package_name, files, outcome) ==
    [op |-> op, target |-> target, package_name |-> package_name,
     files |-> files, outcome |-> outcome]

\* The result a caller's exit status is derived from.
ResultOf(outcome) ==
    CASE outcome = "ok" -> "success"
      [] outcome = "error" -> "failure"
      [] outcome = "raise" -> "crash"

Called(publisher, op, call, line) ==
    LET r == [IdleRun EXCEPT !.publisher = publisher,
                             !.publish_mode = op,
                             !.package_name = call.package_name,
                             !.attempts = Append(run.attempts, call)]
    IN  Finish(IF call.outcome = "ok" THEN r ELSE Say(r, line),
               ResultOf(call.outcome))

\* The ledgers the calls start from: none, or one file that is not XML.
FilesLedgers ==
    {NoLedgers} \cup {[NoLedgers EXCEPT ![p] = MalformedDoc] : p \in LedgerPaths}

\* package.json and .gitignore of the target "app" at the start: every shape
\* of the workspaces field add_workspace_entry tells apart, with the glob and
\* the ignore entry absent or present once.
AppTargets ==
    LET target(manifest, gitignore) ==
            [manifest |-> manifest, gitignore |-> gitignore,
             protolake |-> [f \in FlatNames |-> NoDir]]
        lines(ls, nl) == [exists |-> TRUE, lines |-> ls, nl |-> nl]
    IN  {target(Manifest("object", "absent", "absent", <<>>), NoGitignore),
         target(Manifest("object", "list", "absent", <<>>), lines(<<>>, FALSE)),
         target(Manifest("object", "list", "absent", <<"packages/*">>),
                lines(<<"node_modules/">>, TRUE)),
         target(Manifest("object", "list", "absent", <<"packages/*", WorkspaceGlob>>),
                lines(<<"node_modules/">>, FALSE)),
         target(Manifest("object", "list", "absent", <<WorkspaceGlob>>),
                lines(<<IgnoreEntry, "node_modules/">>, TRUE)),
         target(Manifest("object", "dict", "absent", <<>>),
                lines(<<"node_modules/", "">>, TRUE)),
         target(Manifest("object", "dict", "list", <<"packages/*">>), NoGitignore),
         target(Manifest("object", "dict", "list", <<WorkspaceGlob>>),
                lines(<<"node_modules/">>, TRUE)),
         target(Manifest("object", "dict", "other", <<>>), NoGitignore),
         target(Manifest("object", "other", "absent", <<>>), NoGitignore)}

\* The versions the ledger calls of this specification record.
FilesVersions == {<<0, 9, 0>>, <<1, 0, 0>>}

\* maven_publisher.main: the jar and the pom are copied, then the ledger is
\* updated; any exception is reported and the exit status is 1.
MavenMain(group_id, artifact_id, version) ==
    LET path == MetadataPath(group_id, artifact_id)
        outcome == IF ParseFails(ledger[path]) THEN "error" ELSE "ok"
    IN  /\ runs < MaxRuns
        /\ world' = [world EXCEPT !.mavenRepo =
                        @ \cup {<<GroupPath(group_id), artifact_id, version>>}]
        /\ ledger' = IF ParseFails(ledger[path])
                     THEN ledger
                     ELSE [ledger EXCEPT ![path] =
                              update_maven_metadata(ledger[path],
                                                    ArtifactBase(group_id, artifact_id),
                                                    artifact_id, version)]
        /\ run' = Called("maven_publisher", "publish",
                         FileCall("publish", path, <<>>, {}, outcome),
                         Line("Error", {}, "Error publishing to Maven"))
        /\ prevLedger' = ledger
        /\ before' = world
        /\ runs' = runs + 1
        /\ UNCHANGED history

\* update_local_maven_metadata(repo_path, group_id, artifact_id, new_version):
\* a ParseError of the existing file reaches the caller.
LocalMetadataCall(group_id, artifact_id, new_version) ==
    LET path == LocalMetadataPath(group_id, artifact_id)
        outcome == IF ParseFails(ledger[path]) THEN "raise" ELSE "ok"
    IN  /\ runs < MaxRuns
        /\ ledger' = IF ParseFails(ledger[path])
                     THEN ledger
                     ELSE [ledger EXCEPT ![path] =
                              update_local_maven_metadata(ledger[path], group_id,
                                                          artifact_id, new_version)]
        /\ run' = Called("publisher_utils_generated", "update_local_maven_metadata",
                         FileCall("update_local_maven_metadata", path, <<>>, {}, outcome),
                         Line("Traceback", {}, "ParseError"))
        /\ prevLedger' = ledger
        /\ before' = world
        /\ runs' = runs + 1
        /\ UNCHANGED <<world, history>>

\* pkg_editor.py workspace add --target <target_dir>, with the default glob:
\* exit status 0 when the entry was added or was there, 1 otherwise.
WorkspaceAdd(target_dir) ==
    LET target == world.targets[target_dir]
        entry == add_workspace_entry(target.manifest, WorkspaceGlob)
    IN  /\ runs < MaxRuns
        /\ world' = IF entry.outcome = "ok"
                    THEN [world EXCEPT !.targets[target_dir] =
                             [target EXCEPT !.manifest = entry.manifest,
                                            !.gitignore = ensure_gitignore(@, IgnoreEntry)]]
                    ELSE world
        /\ run' = Called("pkg_editor", "workspace add",
                         FileCall("workspace add", target_dir, <<>>, {}, entry.outcome),
                         IF entry.outcome = "error"
                         THEN Line("Error", {target_dir}, "package.json")
                         ELSE Line("Traceback", {}, "AttributeError"))
        /\ before' = world
        /\ prevLedger' = ledger
        /\ runs' = runs + 1
        /\ UNCHANGED <<ledger, history>>

\* install_package_to_workspace(pkg_dir, package_name, target_dir), pkg_dir
\* being an extracted bundle.
InstallPackage(bundle, package_name, target_dir) ==
    LET installed == install_package_to_workspace(bundle.files, package_name,
                                                  world.targets[target_dir])
    IN  /\ runs < MaxRuns
        /\ bundle.tar = "ok"
        /\ world' = [world EXCEPT !.targets[target_dir] = installed.target]
        /\ run' = Called("pkg_editor", "install",
                         FileCall("install", target_dir, package_name, bundle.files,
                                  installed.outcome),
                         IF installed.outcome = "error"
                         THEN Line("Error", {target_dir}, "package.json")
                         ELSE Line("Traceback", {}, "AttributeError"))
        /\ before' = world
        /\ prevLedger' = ledger
        /\ runs' = runs + 1
        /\ UNCHANGED <<ledger, history>>

FilesNext ==
    \/ \E k \in LedgerKeys, v \in FilesVersions : MavenMain(k[1], k[2], v)
    \/ \E k \in LedgerKeys, v \in FilesVersions : LocalMetadataCall(k[1], k[2], v)
    \/ \E d \in TargetDirs : WorkspaceAdd(d)
    \/ \E bundle \in Bundles, n \in PackageNames, d \in TargetDirs :
          InstallPackage(bundle, n, d)

-----------------------------------------------------------------------------
(* The bundlers' path normalizers. A path is the sequence of its           *)
(* '/'-separated segments: "a/f.proto" is <<"a", "f.proto">>, "a/" is      *)
(* <<"a", "">> and the empty path is <<"">>.                               *)

\* Segments of a path.
MaxSegs == 4

EmptyPath == <<"">>

\* Segments that end with "_virtual_imports", and what precedes it in them.
VirtualSegments == {"_virtual_imports", "x_virtual_imports"}
BeforeVirtual(segment) == IF segment = "_virtual_imports" THEN "" ELSE "x"

PathSegments ==
    {"bazel-out", "bin", "external", "..", "a", "f.proto", ""} \cup VirtualSegments

\* path.startswith(name + '/')
StartsWithDir(path, name) == Len(path) >= 2 /\ path[1] = name

\* Indices of the occurrences of '/bin/' in the path.
BinAt(path) == {i \in 2..(Len(path) - 1) : path[i] = "bin"}

\* Indices of the occurrences of '_virtual_imports/' in the path.
VirtualAt(path) == {i \in 1..(Len(path) - 1) : path[i] \in VirtualSegments}

Least(S) == CHOOSE i \in S : \A j \in S : i <= j

From(path, i) == SubSeq(path, i, Len(path))

\* if path.startswith('bazel-out/'): skip past the first '/bin/';
\* elif path.startswith('external/'): path[9:]
StripPrefix(path) ==
    IF StartsWithDir(path, "bazel-out")
    THEN IF BinAt(path) # {} THEN From(path, Least(BinAt(path)) + 1) ELSE path
    ELSE IF StartsWithDir(path, "external") THEN Tail(path)
    ELSE path

\* while path.startswith('../'): path = path[3:]
RECURSIVE StripParents(_)
StripParents(path) ==
    IF StartsWithDir(path, "..") THEN StripParents(Tail(path)) ELSE path

\* parts = path.split('_virtual_imports/'); parts[1]
AfterVirtual(path) ==
    LET i == Least(VirtualAt(path))
        later == {j \in VirtualAt(path) : j > i}
    IN  IF later = {}
        THEN From(path, i + 1)
        ELSE SubSeq(path, i + 1, Least(later) - 1)
                 \o <<BeforeVirtual(path[Least(later)])>>

\* The '_virtual_imports/' block of wheel_builder.strip_bazel_path and of
\* jar_bundler_generated.main: drop everything through the import name.
StripVirtual(path) ==
    IF VirtualAt(path) # {}
          /\ Len(AfterVirtual(path)) >= 2 /\ AfterVirtual(path)[1] # ""
    THEN Tail(AfterVirtual(path))
    ELSE path

\* wheel_builder.strip_bazel_path
strip_bazel_path(path) == StripVirtual(StripParents(StripPrefix(path)))

\* npm_bundler.strip_bazel_path
npm_strip_bazel_path(path) == StripParents(StripPrefix(path))

\* jar_bundler_generated.main: for each of 'bazel-out/' and 'external/', in
\* that order, drop the prefix and the segment after it.
JarStripPrefix(dest, prefix) ==
    IF StartsWithDir(dest, prefix) /\ Len(dest) >= 3 THEN From(dest, 3) ELSE dest

JarDest(src) ==
    StripVirtual(JarStripPrefix(JarStripPrefix(src, "bazel-out"), "external"))

Bundlers == {"jar_bundler_generated", "npm_bundler", "wheel_builder"}

\* The destination a bundler derives from a proto source given without '='.
Normalize(bundler, path) ==
    CASE bundler = "jar_bundler_generated" -> JarDest(path)
      [] bundler = "npm_bundler" -> npm_strip_bazel_path(path)
      [] bundler = "wheel_builder" -> strip_bazel_path(path)

RECURSIVE PathsUpTo(_)
PathsUpTo(n) ==
    IF n = 1 THEN {<<s>> : s \in PathSegments}
    ELSE PathsUpTo(n - 1)
            \cup {Append(p, s) : p \in {q \in PathsUpTo(n - 1) : Len(q) = n - 1},
                                 s \in PathSegments}

Paths == PathsUpTo(MaxSegs)

\* A path handed to a normalizer: original is the path given, path what the
\* passes made so far have left of it, previous what the latest pass was given.
GivenPath(path) ==
    [pc |-> "given", bundler |-> "", original |-> path, path |-> path,
     previous |-> path, passes |-> 0]

\* One pass of a bundler's normalizer over the path.
StripPass(bundler) ==
    /\ run.pc \in {"given", "stripped"}
    /\ run.passes < 2
    /\ run.bundler \in {"", bundler}
    /\ run' = [run EXCEPT !.pc = "stripped",
                          !.bundler = bundler,
                          !.previous = run.path,
                          !.path = Normalize(bundler, run.path),
                          !.passes = @ + 1]
    /\ UNCHANGED <<world, before, runs, ledger, history, prevLedger>>

NormalizeNext ==
    \/ StripPass("jar_bundler_generated")
    \/ StripPass("npm_bundler")
    \/ StripPass("wheel_builder")

-----------------------------------------------------------------------------
(* Two publish_npm_package runs in mode local-registry in flight at once,  *)
(* for different packages. npm's configuration is per user, not per run.   *)

IdlePusher ==
    [pc |-> "idle", package_name |-> <<>>, version |-> <<>>, registry_url |-> "",
     configured |-> FALSE, destination |-> "", result |-> ""]

\* The run reaches the local-registry branch:
\* registry_url = os.environ.get('NPM_REGISTRY', 'http://localhost:4873').
PushBegin(c, package_name, version, npm_registry) ==
    /\ run[c].pc = "idle"
    /\ \A d \in Callers \ {c} : run[d].package_name # package_name
    /\ run' = [run EXCEPT ![c] =
                  [IdlePusher EXCEPT !.pc = "config",
                                     !.package_name = package_name,
                                     !.version = version,
                                     !.registry_url =
                                         IF npm_registry = Unset
                                         THEN LocalRegistryDefault
                                         ELSE npm_registry]]
    /\ UNCHANGED <<world, before, runs, ledger, history, prevLedger>>

\* subprocess.run(['npm', 'config', 'set', 'registry', registry_url], cwd=pkg_dir):
\* the user's npm configuration is written; the exit status is not looked at.
PushConfigSet(c, status) ==
    /\ run[c].pc = "config"
    /\ run' = [run EXCEPT ![c].pc = "publish", ![c].configured = (status = 0)]
    /\ world' = IF status = 0
                THEN [world EXCEPT !.npmConfigRegistry = run[c].registry_url]
                ELSE world
    /\ UNCHANGED <<before, runs, ledger, history, prevLedger>>

\* subprocess.run(['npm', 'publish'], cwd=pkg_dir): to the registry npm is
\* configured with when the process runs.
PushPublish(c, status) ==
    /\ run[c].pc = "publish"
    /\ status = 0 => Coordinates(run[c]) \notin world.registries[world.npmConfigRegistry]
    /\ world' = IF status = 0
                THEN [world EXCEPT !.registries[world.npmConfigRegistry] =
                                      @ \cup {Coordinates(run[c])}]
                ELSE world
    /\ run' = [run EXCEPT ![c].pc = "exited",
                          ![c].destination = world.npmConfigRegistry,
                          ![c].result = IF status = 0 THEN "success" ELSE "failure"]
    /\ UNCHANGED <<before, runs, ledger, history, prevLedger>>

PushNext ==
    \/ \E c \in Callers, n \in PackageNames, v \in PackageVersions,
          r \in NpmRegistryValues : PushBegin(c, n, v, r)
    \/ \E c \in Callers, status \in ExitStatuses : PushConfigSet(c, status)
    \/ \E c \in Callers, status \in ExitStatuses : PushPublish(c, status)

-----------------------------------------------------------------------------
(* The proto-source loop of the four stagers and the archive step.         *)

\* SourceSpecs staged in one run.
MaxSources == 3

Stagers == Bundlers \cup {"proto_loader_publisher_generated"}

\* One --proto-sources argument: "src=dest" (given) or "src"; kind is what
\* lies at src: a "file", a "dir" or nothing ("missing").
SourceSpec(src, given, dest, kind) ==
    [src |-> src, given |-> given, dest |-> dest, kind |-> kind]

SourcePaths ==
    {<<"a", "user.proto">>, <<"b", "types.proto">>,
     <<"bazel-out", "k8", "bin", "a", "user.proto">>,
     <<"external", "">>, <<"bazel-out", "k8", "bin", "">>}

\* A path with a trailing '/' is no regular file.
KindsAt(src) ==
    IF src[Len(src)] = "" THEN {"dir", "missing"} ELSE {"file", "missing"}

GivenDests == {EmptyPath, <<"x", "user.proto">>, <<"a">>}

SourceSpecs ==
    {SourceSpec(s, FALSE, <<>>, k) : s \in SourcePaths, k \in {"file", "dir", "missing"}}
        \cup {SourceSpec(s, TRUE, d, k) :
                 s \in SourcePaths, d \in GivenDests, k \in {"file", "dir", "missing"}}

\* if '=' in proto_spec: src, dest = proto_spec.split('=', 1); else the
\* stager's normalizer (the proto-loader publisher keeps the path).
DestOf(stager, spec) ==
    IF spec.given THEN spec.dest
    ELSE IF stager \in Bundlers THEN Normalize(stager, spec.src)
    ELSE spec.src

\* Path(root) / dest as segments below the staging root: empty segments
\* vanish, a leading '/' makes the path absolute, '..' is kept.
PathJoin(dest) ==
    IF Len(dest) >= 2 /\ dest[1] = ""
    THEN <<"/">> \o SelectSeq(Tail(dest), LAMBDA s : s # "")
    ELSE SelectSeq(dest, LAMBDA s : s # "")

IsPrefix(p, q) == Len(p) <= Len(q) /\ SubSeq(q, 1, Len(p)) = p

\* The location is a directory of the staged tree (the root, or an ancestor
\* of a staged file).
IsStagedDir(files, loc) ==
    loc = <<>> \/ \E f \in files : IsPrefix(loc, f) /\ f # loc

\* An ancestor of the location is a staged file.
UnderStagedFile(files, loc) ==
    \E f \in files : IsPrefix(f, loc) /\ f # loc

\* dest_path.parent.mkdir(parents=True, exist_ok=True); shutil.copy2(src,
\* dest_path): the files staged afterwards, or "raise".
CopyInto(files, spec, loc) ==
    IF UnderStagedFile(files, loc) \/ spec.kind # "file"
    THEN [outcome |-> "raise", files |-> files]
    ELSE IF IsStagedDir(files, loc)
    THEN [outcome |-> "copied", files |-> files \cup {Append(loc, spec.src[Len(spec.src)])}]
    ELSE [outcome |-> "copied", files |-> files \cup {loc}]

\* Which stagers test os.path.exists(src), and which of them print a
\* warning for a source that is not there.
ChecksExists(stager) == stager \in Bundlers
WarnsMissing(stager) == stager \in {"npm_bundler", "wheel_builder"}

\* What a stager has in its staging root before the loop.
InitialFiles(stager) ==
    IF stager = "jar_bundler_generated" THEN {<<"META-INF", "MANIFEST.MF">>} ELSE {}

StageRun(stager) ==
    [pc |-> "staging", publisher |-> stager, files |-> InitialFiles(stager),
     prevFiles |-> InitialFiles(stager), items |-> <<>>, output |-> <<>>,
     result |-> "", nonzero |-> {}]

StageInvoke(stager) ==
    /\ run.pc = "idle"
    /\ run' = StageRun(stager)
    /\ UNCHANGED <<world, before, runs, ledger, history, prevLedger>>

Item(spec, dest, outcome) == [spec |-> spec, dest |-> dest, outcome |-> outcome]

\* One iteration of "for proto_spec in args.proto_sources".
StageSource(spec) ==
    /\ run.pc = "staging"
    /\ Len(run.items) < MaxSources
    /\ spec.kind \in KindsAt(spec.src)
    /\ LET stager == run.publisher
           dest == DestOf(stager, spec)
           copy == CopyInto(run.files, spec, PathJoin(dest))
           seen(outcome) == [run EXCEPT !.items = Append(@, Item(spec, dest, outcome)),
                                        !.prevFiles = run.files]
       IN  run' =
             IF ChecksExists(stager) /\ spec.kind = "missing"
             THEN IF WarnsMissing(stager)
                  THEN Say(seen("skipped"),
                           Line("Warning", {spec.src}, "Proto source file not found"))
                  ELSE seen("skipped")
             ELSE IF copy.outcome = "raise"
             THEN Finish(Say(seen("raise"), Line("Traceback", {}, "OSError")), "crash")
             ELSE [seen("copied") EXCEPT !.files = copy.files]
    /\ UNCHANGED <<world, before, runs, ledger, history, prevLedger>>

\* What the stager writes beside the staged sources before it archives:
\* package.json, the index files and README.md (npm_bundler, no JavaScript
\* file given); package.json, index.js and index.d.ts around proto/ (the
\* proto-loader publisher); setup.py and MANIFEST.in (wheel_builder).
PackageFiles(stager, files) ==
    CASE stager = "npm_bundler" ->
            files \cup {<<"package.json">>, <<"index.cjs">>, <<"index.mjs">>,
                        <<"index.d.ts">>, <<"README.md">>}
      [] stager = "proto_loader_publisher_generated" ->
            {<<"proto">> \o f : f \in files}
                \cup {<<"package.json">>, <<"index.js">>, <<"index.d.ts">>}
      [] stager = "wheel_builder" -> files \cup {<<"setup.py">>, <<"MANIFEST.in">>}
      [] OTHER -> files

\* The archive a run leaves at --output.
Archive(r) == [stager |-> r.publisher, files |-> PackageFiles(r.publisher, r.files)]

\* After the loop: the jar is written and Jandex run on it with check=True;
\* the npm bundler runs tar and the wheel builder pip, both exiting with 1
\* on a non-zero status; the proto-loader publisher writes the tarball itself.
Package(status) ==
    /\ run.pc = "staging"
    /\ run.publisher = "proto_loader_publisher_generated" => status = 0
    /\ LET stager == run.publisher
           written == [world EXCEPT !.archives = @ \cup {Archive(run)}]
           process == CASE stager = "jar_bundler_generated" -> "java -jar jandex"
                        [] stager = "npm_bundler" -> "tar czf"
                        [] stager = "wheel_builder" -> "pip wheel"
                        [] OTHER -> ""
       IN  IF status = 0
           THEN /\ world' = written
                /\ run' = Finish(run, "success")
           ELSE /\ world' = IF stager = "jar_bundler_generated" THEN written ELSE world
                /\ run' = IF stager = "jar_bundler_generated"
                          THEN Finish(Say(Exits(run, process, status),
                                          Line("Traceback", {}, "CalledProcessError")),
                                      "crash")
                          ELSE Finish(Say(Exits(run, process, status),
                                          Line("Error", {}, "Error creating archive")),
                                      "failure")
    /\ UNCHANGED <<before, runs, ledger, history, prevLedger>>

\* The stagers whose archive an npm publisher takes.
NpmStagers == {"npm_bundler", "proto_loader_publisher_generated"}

\* --proto-sources arguments of the end-to-end runs.
PipelineSources ==
    {SourceSpec(<<"a", "user.proto">>, FALSE, <<>>, "file"),
     SourceSpec(<<"b", "types.proto">>, FALSE, <<>>, "file"),
     SourceSpec(<<"bazel-out", "k8", "bin", "a", "user.proto">>, FALSE, <<>>, "file"),
     SourceSpec(<<"c", "gone.proto">>, FALSE, <<>>, "missing")}

\* The publisher run on the archive in mode 'file': the tarball is extracted
\* and its package directory copied over the cache directory of the
\* coordinates.
PublishStaged(package_name, version) ==
    /\ run.pc = "exited"
    /\ run.result = "success"
    /\ run.publisher \in NpmStagers
    /\ LET dest == FileDest(package_name, version)
       IN  /\ before' = world
           /\ world' = [world EXCEPT !.npmPackages[dest] =
                                        ReplaceTree(@, Archive(run).files)]
    /\ run' = [run EXCEPT !.pc = "published"] @@ [dest |-> FileDest(package_name, version)]
    /\ UNCHANGED <<runs, ledger, history, prevLedger>>

PipelineNext ==
    \/ \E stager \in NpmStagers : StageInvoke(stager)
    \/ \E spec \in PipelineSources : StageSource(spec)
    \/ \E status \in ExitStatuses : Package(status)
    \/ \E n \in PackageNames, v \in PackageVersions : PublishStaged(n, v)

StageNext ==
    \/ \E stager \in Stagers : StageInvoke(stager)
    \/ \E spec \in SourceSpecs : StageSource(spec)
    \/ \E status \in ExitStatuses : Package(status)

-----------------------------------------------------------------------------
(* wheel_builder.main: the py-files loop with its __init__.py markers,     *)
(* then the proto-sources loop and the build.                              *)

\* What the filesystem makes of a path below the staging root: '..' steps
\* up, and a result that begins with '..' or '/' lies outside the root.
RECURSIVE ResolveFrom(_, _)
ResolveFrom(done, rest) ==
    IF rest = <<>> THEN done
    ELSE IF Head(rest) # ".." THEN ResolveFrom(Append(done, Head(rest)), Tail(rest))
    ELSE IF done = <<"/">> THEN ResolveFrom(done, Tail(rest))
    ELSE IF done = <<>> \/ done[Len(done)] = ".."
    THEN ResolveFrom(Append(done, ".."), Tail(rest))
    ELSE ResolveFrom(SubSeq(done, 1, Len(done) - 1), Tail(rest))

Resolve(loc) == ResolveFrom(<<>>, loc)

\* Path.parent, which is lexical: the parent of '/' is '/'.
Parent(loc) ==
    IF loc = <<"/">> \/ loc = <<>> THEN loc ELSE SubSeq(loc, 1, Len(loc) - 1)

\* --py-files arguments: a path and what lies there.
PyPaths ==
    {<<"a", "b", "user_pb2.py">>, <<"a", "x_pb2.py">>, <<"top_pb2.py">>,
     <<"bazel-out", "k8", "bin", "a", "user_pb2.py">>,
     <<"a", "..", "..", "x_pb2.py">>, <<"external", "", "abs", "x_pb2.py">>}
PySpecs == {SourceSpec(s, FALSE, <<>>, k) : s \in PyPaths, k \in {"file", "missing"}}

\* --proto-sources arguments of the wheel runs.
WheelProtoSpecs ==
    {SourceSpec(<<"a", "user.proto">>, FALSE, <<>>, "file"),
     SourceSpec(<<"p", "q", "types.proto">>, FALSE, <<>>, "file"),
     SourceSpec(<<"a", "user.proto">>, FALSE, <<>>, "missing")}

WheelInvoke ==
    /\ run.pc = "idle"
    /\ run' = [pc |-> "py", publisher |-> "wheel_builder", files |-> {},
               prevFiles |-> {}, items |-> <<>>, output |-> <<>>, result |-> "",
               nonzero |-> {}, pyItems |-> <<>>, current |-> <<>>,
               created |-> <<>>]
    /\ UNCHANGED <<world, before, runs, ledger, history, prevLedger>>

\* One iteration of "for py_file in args.py_files", up to the marker loop.
StagePy(spec) ==
    /\ run.pc = "py"
    /\ Len(run.pyItems) < MaxSources
    /\ LET dest == strip_bazel_path(spec.src)
           dest_path == PathJoin(dest)
           copy == CopyInto(run.files, spec, Resolve(dest_path))
           seen(outcome) == [run EXCEPT !.pyItems = Append(@, Item(spec, dest, outcome)),
                                        !.prevFiles = run.files]
       IN  run' =
             IF spec.kind = "missing"
             THEN Say(seen("skipped"),
                      Line("Warning", {spec.src}, "Python file not found"))
             ELSE IF copy.outcome = "raise"
             THEN Finish(Say(seen("raise"), Line("Traceback", {}, "OSError")), "crash")
             ELSE [seen("copied") EXCEPT !.files = copy.files,
                                         !.current = Parent(dest_path),
                                         !.pc = "markers"]
    /\ UNCHANGED <<world, before, runs, ledger, history, prevLedger>>

\* One test of "while current != Path(tmpdir)" and, when it holds, the body:
\* touch current/__init__.py unless it exists, then current = current.parent.
MarkerStep ==
    /\ run.pc = "markers"
    /\ LET init_file == Resolve(Append(run.current, "__init__.py"))
       IN  run' =
             IF run.current = <<>>
             THEN [run EXCEPT !.pc = "py"]
             ELSE IF init_file \in run.files
             THEN [run EXCEPT !.current = Parent(run.current)]
             ELSE [run EXCEPT !.files = @ \cup {init_file},
                              !.created = Append(@, init_file),
                              !.current = Parent(run.current)]
    /\ UNCHANGED <<world, before, runs, ledger, history, prevLedger>>

\* The py-files loop is over; the proto-sources loop begins.
EndPyFiles ==
    /\ run.pc = "py"
    /\ run' = [run EXCEPT !.pc = "staging"]
    /\ UNCHANGED <<world, before, runs, ledger, history, prevLedger>>

WheelNext ==
    \/ WheelInvoke
    \/ \E spec \in PySpecs : StagePy(spec)
    \/ MarkerStep
    \/ EndPyFiles
    \/ \E spec \in WheelProtoSpecs : StageSource(spec)
    \/ \E status \in ExitStatuses : Package(status)

-----------------------------------------------------------------------------
(* Directory listings, the generated index files of npm_bundler.py and the *)
(* archive member order. os.walk, Path.rglob and tar take the entries of a *)
(* directory in the order the filesystem returns them; nothing sorts them. *)

\* The entry names of the staged trees, in byte order.
NameOrder ==
    <<"MANIFEST.MF", "META-INF", "README.md", "a", "alpha_pb.cjs", "alpha_pb.js",
      "alpha_pb.mjs", "index.cjs", "index.d.ts", "index.js", "index.mjs", "js",
      "node", "package.json", "types.proto", "user.proto", "user_grpc_web_pb.cjs",
      "user_grpc_web_pb.js", "user_grpc_web_pb.mjs", "web", "zeta_pb.cjs",
      "zeta_pb.js", "zeta_pb.mjs">>

\* Orders a filesystem may return entries in: by name, by name backwards,
\* and one that is neither (a hash order).
ScanOrders ==
    LET n == Len(NameOrder)
    IN  {NameOrder,
         [i \in 1..n |-> NameOrder[n + 1 - i]],
         [i \in 1..n |-> NameOrder[((i * 7) % n) + 1]]}

\* The names ending in '.js', with Path.with_suffix('.cjs'), ('.mjs'), ('')
\* of each, and whether the name contains 'grpc_web'.
JsUnits ==
    {[js |-> "alpha_pb.js", cjs |-> "alpha_pb.cjs", mjs |-> "alpha_pb.mjs",
      stem |-> "alpha_pb", web |-> FALSE],
     [js |-> "zeta_pb.js", cjs |-> "zeta_pb.cjs", mjs |-> "zeta_pb.mjs",
      stem |-> "zeta_pb", web |-> FALSE],
     [js |-> "user_grpc_web_pb.js", cjs |-> "user_grpc_web_pb.cjs",
      mjs |-> "user_grpc_web_pb.mjs", stem |-> "user_grpc_web_pb", web |-> TRUE],
     [js |-> "index.js", cjs |-> "index.cjs", mjs |-> "index.mjs",
      stem |-> "index", web |-> FALSE]}

\* dest.suffix == '.js'
IsJs(name) == \E u \in JsUnits : u.js = name
JsUnit(name) == CHOOSE u \in JsUnits : u.js = name

\* 'grpc_web' in js_file or 'grpc-web' in js_file
IsWeb(path) == \E i \in 1..Len(path) : IsJs(path[i]) /\ JsUnit(path[i]).web

\* path.with_name(name)
WithName(path, name) == [path EXCEPT ![Len(path)] = name]

\* create_module_wrappers(js_file): the .cjs and the .mjs beside a .js file.
create_module_wrappers(js_file) ==
    {WithName(js_file, JsUnit(js_file[Len(js_file)]).cjs),
     WithName(js_file, JsUnit(js_file[Len(js_file)]).mjs)}

\* copy_files_to_subdir(files, subdir): the files it leaves under subdir.
copy_files_to_subdir(files, subdir) ==
    UNION {LET dest == subdir \o PathJoin(npm_strip_bazel_path(files[i]))
           IN  {dest} \cup (IF IsJs(dest[Len(dest)])
                            THEN create_module_wrappers(dest) ELSE {}) :
           i \in 1..Len(files)}

\* organize_js_files(js_files, pkg_dir), every listed file being there.
organize_js_files(js_files) ==
    copy_files_to_subdir(SelectSeq(js_files, LAMBDA f : ~IsWeb(f)), <<"node">>)
        \cup copy_files_to_subdir(SelectSeq(js_files, IsWeb), <<"web">>)

\* os.listdir / os.scandir of a directory of the tree under an order.
Listing(tree, dir, order) ==
    SelectSeq(order, LAMBDA n : \E f \in tree : IsPrefix(Append(dir, n), f))

\* The members one traversal yields from the given entries of dir on:
\* os.walk and rglob take a directory's files before its subdirectories and
\* yield files only; tar takes entries as they come and yields directories too.
RECURSIVE Walk(_, _, _, _, _)
Walk(tree, dir, names, order, style) ==
    IF names = <<>> THEN <<>>
    ELSE LET p == Append(dir, Head(names))
             below == Listing(tree, p, order)
             sub == IF style = "tar" THEN below
                    ELSE SelectSeq(below, LAMBDA n : Append(p, n) \in tree)
                         \o SelectSeq(below, LAMBDA n : Append(p, n) \notin tree)
         IN  (IF p \in tree THEN <<p>>
              ELSE (IF style = "tar" THEN <<p>> ELSE <<>>)
                   \o Walk(tree, p, sub, order, style))
             \o Walk(tree, dir, Tail(names), order, style)

\* The traversal of the whole directory dir.
WalkDir(tree, dir, order, style) ==
    LET here == Listing(tree, dir, order)
        top == IF style = "tar" THEN here
               ELSE SelectSeq(here, LAMBDA n : Append(dir, n) \in tree)
                    \o SelectSeq(here, LAMBDA n : Append(dir, n) \notin tree)
    IN  Walk(tree, dir, top, order, style)

\* create_subdir_index(subdir): the module paths index.js re-exports, one
\* line each, in the order subdir.rglob('*.js') yields the files.
create_subdir_index(tree, subdir, order) ==
    LET js_files == SelectSeq(WalkDir(tree, subdir, order, "walk"),
                              LAMBDA p : IsJs(p[Len(p)]))
    IN  [i \in 1..Len(js_files) |->
            LET rel_path == SubSeq(js_files[i], Len(subdir) + 1, Len(js_files[i]))
            IN  WithName(rel_path, JsUnit(rel_path[Len(rel_path)]).stem)]

\* The inputs of the runs: --js-files lists and --proto-sources lists.
JsFileLists ==
    {<< <<"js", "zeta_pb.js">>, <<"js", "alpha_pb.js">> >>,
     << <<"bazel-out", "k8", "bin", "js", "alpha_pb.js">>, <<"zeta_pb.js">>,
        <<"js", "user_grpc_web_pb.js">> >>,
     << <<"js", "alpha_pb.js">> >>}
ProtoLists ==
    {<< <<"a", "user.proto">>, <<"a", "types.proto">> >>, << <<"user.proto">> >>}

Subdirs == {<<"node">>, <<"web">>}

\* A bundler starts on a fresh staging root: the sources are staged and
\* package.json (the jar's manifest) is written.
ArchiveInvoke(stager, sources) ==
    /\ run.pc \in {"idle", "exited"}
    /\ runs < MaxRuns
    /\ \/ stager = "jar_bundler_generated" /\ sources \in ProtoLists
       \/ stager = "npm_bundler" /\ sources \in JsFileLists
    /\ run' = [pc |-> "staged", publisher |-> stager, sources |-> sources,
               files |-> IF stager = "npm_bundler"
                         THEN organize_js_files(sources) \cup {<<"package.json">>}
                         ELSE InitialFiles(stager)
                                  \cup {PathJoin(Normalize(stager, sources[i])) :
                                           i \in 1..Len(sources)},
               index |-> [d \in Subdirs |-> <<>>], result |-> ""]
    /\ runs' = runs + 1
    /\ UNCHANGED <<world, before, ledger, history, prevLedger>>

\* create_index_files(pkg_dir, has_node, has_web)
CreateIndexFiles(order) ==
    /\ run.pc = "staged"
    /\ run.publisher = "npm_bundler"
    /\ LET has(d) == \E f \in run.files : IsPrefix(d, f)
           written == {d \o <<n>> : d \in {d \in Subdirs : has(d)},
                                    n \in {"index.js", "index.cjs", "index.mjs",
                                           "index.d.ts"}}
       IN  run' = [run EXCEPT
                      !.pc = "indexed",
                      !.index = [d \in Subdirs |->
                                    IF has(d)
                                    THEN create_subdir_index(run.files, d, order)
                                    ELSE <<>>],
                      !.files = @ \cup {<<"index.cjs">>, <<"index.mjs">>,
                                        <<"index.d.ts">>} \cup written]
    /\ UNCHANGED <<world, before, runs, ledger, history, prevLedger>>

\* The archive is written: zipfile over os.walk(tmpdir) for the jar, README.md
\* and then "tar czf" of the package directory for the npm package.
WriteArchive(order, status) ==
    /\ \/ run.pc = "staged" /\ run.publisher = "jar_bundler_generated" /\ status = 0
       \/ run.pc = "indexed" /\ run.publisher = "npm_bundler"
    /\ LET files == IF run.publisher = "npm_bundler"
                    THEN run.files \cup {<<"README.md">>} ELSE run.files
           style == IF run.publisher = "npm_bundler" THEN "tar" ELSE "walk"
       IN  /\ run' = [run EXCEPT !.pc = "exited", !.files = files,
                                 !.result = IF status = 0 THEN "success"
                                            ELSE "failure"]
           /\ world' = IF status = 0
                       THEN [world EXCEPT !.archives = @ \cup
                               {[stager |-> run.publisher, sources |-> run.sources,
                                 files |-> files, index |-> run.index,
                                 members |-> WalkDir(files, <<>>, order, style)]}]
                       ELSE world
    /\ UNCHANGED <<before, runs, ledger, history, prevLedger>>

ArchiveNext ==
    \/ \E stager \in Bundlers, sources \in JsFileLists \cup ProtoLists :
           ArchiveInvoke(stager, sources)
    \/ \E order \in ScanOrders : CreateIndexFiles(order)
    \/ \E order \in ScanOrders, status \in ExitStatuses : WriteArchive(order, status)

-----------------------------------------------------------------------------
(* The bundlers' version resolution (the same block in each main). A       *)
(* version, a variable name, a value is a sequence of one-character        *)
(* strings.                                                                *)

\* Characters of a generated version argument.
MaxChars == 4

VersionChars == {"$", "{", "}", ":", "-", "F", "1"}

RECURSIVE StringsUpTo(_)
StringsUpTo(n) ==
    IF n = 0 THEN {<<>>}
    ELSE StringsUpTo(n - 1)
            \cup {Append(s, c) : s \in {t \in StringsUpTo(n - 1) : Len(t) = n - 1},
                                 c \in VersionChars}

\* '1.0.0'
DefaultVersion == <<"1", ".", "0", ".", "0">>

\* "${" name ":-" default "}"
Placeholder(name, default) ==
    <<"$", "{">> \o name \o <<":", "-">> \o default \o <<"}">>

\* FOO, a variable no environment sets, and the empty name.
PlaceholderNames == {<<"F">>, <<"G">>, <<>>}
\* '1.2.3', '1', '', '${F}' and '1:-1'.
PlaceholderDefaults ==
    {<<"1", ".", "2", ".", "3">>, <<"1">>, <<>>, <<"$", "{", "F", "}">>,
     <<"1", ":", "-", "1">>}

VersionArgs ==
    StringsUpTo(MaxChars)
        \cup {Placeholder(n, d) : n \in PlaceholderNames, d \in PlaceholderDefaults}
        \cup {<<"v">> \o Placeholder(<<"F">>, <<"1">>), <<"1", ".", "2", ".", "3">>}

\* os.environ: FOO unset, or set to '', '9.9.9' or '${F}'.
NotSet == [set |-> FALSE, value |-> <<>>]
SetTo(value) == [set |-> TRUE, value |-> value]
Environments ==
    {[name \in {<<"F">>} |-> v] :
        v \in {NotSet, SetTo(<<>>), SetTo(<<"9", ".", "9", ".", "9">>),
               SetTo(<<"$", "{", "F", "}">>)}}

DefaultOnly(env, name, default) == default

\* os.environ.get(name, default)
OsEnvironGet(env, name, default) ==
    IF name \in DOMAIN env /\ env[name].set THEN env[name].value ELSE default

\* Indices at which the two characters a, b occur next to each other.
PairAt(s, a, b) == {i \in 1..(Len(s) - 1) : s[i] = a /\ s[i + 1] = b}

\* args.version.startswith('${') and args.version.endswith('}')
IsPlaceholder(version) ==
    /\ Len(version) >= 2 /\ version[1] = "$" /\ version[2] = "{"
    /\ version[Len(version)] = "}"

\* The first block: a whole-string placeholder is looked up in the environment.
ExpandVersion(version, env) ==
    IF IsPlaceholder(version)
    THEN LET var_content == SubSeq(version, 3, Len(version) - 1)
             at == PairAt(var_content, ":", "-")
         IN  IF at # {}
             THEN OsEnvironGet(env, SubSeq(var_content, 1, Least(at) - 1),
                               SubSeq(var_content, Least(at) + 2, Len(var_content)))
             ELSE OsEnvironGet(env, var_content, DefaultVersion)
    ELSE version

NeverUnexpanded(version) == FALSE

\* '${' in args.version
HasUnexpanded(version) == PairAt(version, "$", "{") # {}

\* A version argument handed to a bundler in an environment.
GivenVersion(version, env) ==
    [pc |-> "given", bundler |-> "", version_arg |-> version, env |-> env,
     expanded |-> <<>>, version |-> <<>>, output |-> <<>>]

\* The version block of a bundler's main.
ResolveVersion(bundler) ==
    /\ run.pc = "given"
    /\ LET expanded == ExpandVersion(run.version_arg, run.env)
       IN  run' = [run EXCEPT
                      !.pc = "resolved",
                      !.bundler = bundler,
                      !.expanded = expanded,
                      !.version = IF HasUnexpanded(expanded)
                                  THEN DefaultVersion ELSE expanded,
                      !.output = IF HasUnexpanded(expanded)
                                 THEN <<Line("Warning", {}, "unexpanded variables")>>
                                 ELSE <<>>]
    /\ UNCHANGED <<world, before, runs, ledger, history, prevLedger>>

VersionNext ==
    \/ ResolveVersion("jar_bundler_generated")
    \/ ResolveVersion("npm_bundler")
    \/ ResolveVersion("wheel_builder")

-----------------------------------------------------------------------------
(* Specifications.                                                         *)

\* The ledger operations alone, from every initial ledger.
LedgerSpecInit ==
    /\ ledger \in InitLedgers
    /\ history = <<>>
    /\ prevLedger = ledger
    /\ world = InitialWorld
    /\ before = InitialWorld
    /\ run = IdleRun
    /\ runs = 0

LedgerSpec == LedgerSpecInit /\ [][LedgerNext]_vars

\* The npm publishers alone, no ledger written.
DispatchSpecInit ==
    /\ ledger = NoLedgers
    /\ history = <<>>
    /\ prevLedger = NoLedgers
    /\ world = InitialWorld
    /\ before = InitialWorld
    /\ run = IdleRun
    /\ runs = 0

DispatchSpec == DispatchSpecInit /\ [][DispatchNext]_vars

\* The calls that read and write the persisted files, from every shape of
\* ledger and manifest.
FilesSpecInit ==
    /\ ledger \in FilesLedgers
    /\ history = <<>>
    /\ prevLedger = ledger
    /\ world \in {[InitialWorld EXCEPT !.targets["app"] = t] : t \in AppTargets}
    /\ before = world
    /\ run = IdleRun
    /\ runs = 0

FilesSpec == FilesSpecInit /\ [][FilesNext]_vars

\* The path normalizers over every path of up to MaxSegs segments.
NormalizeSpecInit ==
    /\ ledger = NoLedgers
    /\ history = <<>>
    /\ prevLedger = NoLedgers
    /\ world = InitialWorld
    /\ before = InitialWorld
    /\ run \in {GivenPath(p) : p \in Paths}
    /\ runs = 0

NormalizeSpec == NormalizeSpecInit /\ [][NormalizeNext]_vars

\* Version resolution over every version argument and environment.
VersionSpecInit ==
    /\ ledger = NoLedgers
    /\ history = <<>>
    /\ prevLedger = NoLedgers
    /\ world = InitialWorld
    /\ before = InitialWorld
    /\ run \in {GivenVersion(v, e) : v \in VersionArgs, e \in Environments}
    /\ runs = 0

VersionSpec == VersionSpecInit /\ [][VersionNext]_vars

\* One stager run over every list of up to MaxSources SourceSpecs.
StageSpecInit ==
    /\ ledger = NoLedgers
    /\ history = <<>>
    /\ prevLedger = NoLedgers
    /\ world = InitialWorld
    /\ before = InitialWorld
    /\ run = IdleRun
    /\ runs = 0

StageSpec == StageSpecInit /\ [][StageNext]_vars

\* Concurrent recordVersion calls on ledgers that are absent or were left by
\* another tool.
RaceSpecInit ==
    /\ ledger \in InitLedgers
    /\ history = <<>>
    /\ prevLedger = ledger
    /\ world = InitialWorld
    /\ before = InitialWorld
    /\ run = [c \in Callers |-> IdleCaller]
    /\ runs = 0

RaceSpec == RaceSpecInit /\ [][RaceNext]_vars

\* Concurrent pushes to a local registry, from npm's default configuration.
PushSpecInit ==
    /\ ledger = NoLedgers
    /\ history = <<>>
    /\ prevLedger = NoLedgers
    /\ world = InitialWorld
    /\ before = InitialWorld
    /\ run = [c \in Callers |-> IdlePusher]
    /\ runs = 0

PushSpec == PushSpecInit /\ [][PushNext]_vars

\* Bundler runs, each on a fresh staging root.
ArchiveSpecInit ==
    /\ ledger = NoLedgers
    /\ history = <<>>
    /\ prevLedger = NoLedgers
    /\ world = InitialWorld
    /\ before = InitialWorld
    /\ run = IdleRun
    /\ runs = 0

ArchiveSpec == ArchiveSpecInit /\ [][ArchiveNext]_vars

\* One wheel_builder run.
WheelSpecInit ==
    /\ ledger = NoLedgers
    /\ history = <<>>
    /\ prevLedger = NoLedgers
    /\ world = InitialWorld
    /\ before = InitialWorld
    /\ run = IdleRun
    /\ runs = 0

WheelSpec == WheelSpecInit /\ [][WheelNext]_vars

\* Stage, archive, publish in mode 'file'.
PipelineSpecInit ==
    /\ ledger = NoLedgers
    /\ history = <<>>
    /\ prevLedger = NoLedgers
    /\ world = InitialWorld
    /\ before = InitialWorld
    /\ run = IdleRun
    /\ runs = 0

PipelineSpec == PipelineSpecInit /\ [][PipelineNext]_vars

-----------------------------------------------------------------------------
(* Claims about the ledger.                                                *)

LastCall == history[Len(history)]

\* C1: a recordVersion call never removes a listed version from any ledger
\* (every version listed before the call is listed after it), and after
\* every call the latest and release pointers of the ledger it wrote both
\* equal the version just recorded.
C1_VersionsGrowPointersFollow ==
    /\ \A p \in LedgerPaths : Listed(prevLedger[p]) \subseteq Listed(ledger[p])
    /\ history # <<>> =>
          /\ ledger[LastCall.path].latest = LastCall.version
          /\ ledger[LastCall.path].release = LastCall.version
          /\ LastCall.version \in Listed(ledger[LastCall.path])

\* A call that added a new version to a ledger already listing another one.
C1_Witness ==
    /\ history # <<>>
    /\ Listed(prevLedger[LastCall.path]) # {}
    /\ LastCall.version \notin Listed(prevLedger[LastCall.path])
    /\ Cardinality(Listed(ledger[LastCall.path])) >= 2

\* C2: recording the same version on the same ledger twice in a row leaves
\* the number and the set of listed versions as the first call left them,
\* and the ledger never lists a version twice.
C2_RecordVersionIdempotent ==
    /\ (Len(history) >= 2 /\ history[Len(history) - 1] = LastCall) =>
          /\ Len(ledger[LastCall.path].versions) =
                 Len(prevLedger[LastCall.path].versions)
          /\ Listed(ledger[LastCall.path]) = Listed(prevLedger[LastCall.path])
    /\ \A p \in LedgerPaths : NoDuplicates(ledger[p].versions)

\* The same version was recorded twice in a row on a ledger listing two
\* versions.
C2_Witness ==
    /\ Len(history) >= 3
    /\ history[Len(history) - 1] = LastCall
    /\ Cardinality(Listed(ledger[LastCall.path])) = 2

\* C3: after recordVersion(a) then recordVersion(b) on one ledger, latest is
\* b, whatever the semantic-version order of a and b.
C3_LatestFollowsPublishOrder ==
    (/\ Len(history) >= 2
     /\ history[Len(history) - 1].path = LastCall.path) =>
        ledger[LastCall.path].latest = LastCall.version

\* "1.0.0" then "0.9.0" was recorded and latest is "0.9.0".
C3_Witness ==
    /\ Len(history) >= 2
    /\ history[Len(history) - 1] = Call(LastCall.path, <<1, 0, 0>>)
    /\ LastCall.version = <<0, 9, 0>>
    /\ ledger[LastCall.path].latest = <<0, 9, 0>>

-----------------------------------------------------------------------------
(* Claims about the publish dispatch.                                      *)

Exited == run.pc = "exited"

HasEvent(op) == \E i \in 1..Len(run.events) : run.events[i].op = op

\* A printed line of the given level names the variable.
Names(level, variable) ==
    \E i \in 1..Len(run.output) :
        run.output[i].level = level /\ variable \in run.output[i].names

\* The run got as far as the branch of the mode.
Reached(mode) ==
    /\ run.publish_mode = mode
    /\ run.publisher \in Publishers
    /\ mode \in BranchesOf(run.publisher)

\* C4: a run whose NPM_PUBLISH_MODE is skip ends in success, whatever the
\* bundle and the coordinates, and leaves the world as it found it.
C4_SkipAlwaysSucceeds ==
    (Exited /\ run.envMode = "skip" /\ run.package_name # <<>>) =>
        (run.result = "success" /\ world = before)

\* C5: a run whose NPM_PUBLISH_MODE is set to a value that is no publish mode
\* never ends in success, has no side effect (no link, copy, install or
\* push), takes no other mode in its place, and once it reaches the dispatch
\* it reports the unknown mode and fails.
C5_UnknownModeFails ==
    (Exited /\ run.publisher \in Publishers
            /\ run.envMode \notin PublishModes \cup {Unset}) =>
        /\ run.result \in {"failure", "crash"}
        /\ ExitCode(run) = 1
        /\ run.events = <<>>
        /\ world = before
        /\ run.publish_mode \in {"", run.envMode}
        /\ run.publish_mode = run.envMode =>
              /\ run.result = "failure"
              /\ \E i \in 1..Len(run.output) :
                    run.output[i] = Line("Error", {}, "Unknown publish mode")

\* An unknown mode was refused in a world an earlier run had written to.
C5_Witness ==
    /\ Exited
    /\ run.envMode = "dry-run"
    /\ run.publish_mode = "dry-run"
    /\ run.result = "failure"
    /\ world # InitialWorld

\* C6: in registry mode with the registry URL or the token missing, the run
\* fails, an error line names the missing variable, no .npmrc is written, the
\* registry client is not run and nothing is pushed.
C6_RegistryConfigRequired ==
    (Exited /\ run.publish_mode = "registry"
            /\ (run.publisher \in Publishers => Reached("registry"))
            /\ (run.registry_url = "" \/ run.token = "")) =>
        /\ run.result = "failure"
        /\ run.publisher \in Publishers /\ run.registry_url = "" =>
              Names("Error", "NPM_REGISTRY_URL")
        /\ run.publisher \in Publishers /\ run.registry_url # "" =>
              Names("Error", "NPM_REGISTRY_TOKEN") /\ Names("Error", "REGISTRY_TOKEN")
        /\ run.publisher \notin Publishers => Names("Error", "REGISTRY_TOKEN")
        /\ ~HasEvent("write .npmrc")
        /\ ~HasEvent("npm publish")
        /\ ~HasEvent("upload")
        /\ world = before

\* A registry run with a URL and no token failed.
C6_Witness ==
    /\ Exited
    /\ Reached("registry")
    /\ run.registry_url # ""
    /\ run.token = ""
    /\ run.result = "failure"

WorkspaceRun == Exited /\ Reached("workspace")

\* C7 as claimed: in workspace mode with JS_TARGETS unset or blank the run
\* does not succeed and an error names JS_TARGETS.
C7_BlankTargetsFatal ==
    (WorkspaceRun /\ IsBlank(run.js_targets_str)) =>
        (run.result # "success" /\ Names("Error", "JS_TARGETS"))

\* C7 as amended: in workspace mode with JS_TARGETS unset or blank the run
\* warns, naming JS_TARGETS, installs nothing and ends in success.
C7_BlankTargetsWarn ==
    (WorkspaceRun /\ IsBlank(run.js_targets_str)) =>
        /\ run.result = "success"
        /\ Names("Warning", "JS_TARGETS")
        /\ run.attempts = <<>>
        /\ run.events = <<>>
        /\ world = before

C7_Witness ==
    /\ WorkspaceRun
    /\ IsBlank(run.js_targets_str)
    /\ run.result = "success"

\* C8: in workspace mode every target of the list is attempted once, in list
\* order, whatever happened to the targets before it.
C8_EveryTargetAttempted ==
    (WorkspaceRun /\ ~IsBlank(run.js_targets_str)) =>
        /\ Len(run.attempts) = Len(run.js_targets)
        /\ \A i \in 1..Len(run.attempts) : run.attempts[i].target = run.js_targets[i]

InstalledIn(target_dir) ==
    LET target == world.targets[target_dir]
    IN  /\ target.protolake[FlatName(run.package_name)] = Dir(run.bundle.files)
        /\ InList(target.manifest.items, WorkspaceGlob)
        /\ InList(target.gitignore.lines, IgnoreEntry)

\* C9 as claimed: the workspace run succeeds exactly when every target of
\* the list was installed.
C9_SuccessIffAllInstalled ==
    (WorkspaceRun /\ ~IsBlank(run.js_targets_str)) =>
        (run.result = "success" <=>
            /\ Len(run.attempts) = Len(run.js_targets)
            /\ \A i \in 1..Len(run.attempts) : run.attempts[i].outcome = "ok")

\* C9 as amended: the workspace run succeeds exactly when no install it
\* attempted failed; a target without package.json is skipped with a warning
\* naming it and does not count as a failure; every target whose install
\* succeeded holds the package at the end of the run, whatever the result.
C9_SuccessIffNoInstallFailed ==
    (WorkspaceRun /\ ~IsBlank(run.js_targets_str)) =>
        /\ run.result = "success" <=>
              \A i \in 1..Len(run.attempts) : run.attempts[i].outcome \in {"ok", "skip"}
        /\ \A i \in 1..Len(run.attempts) :
              /\ run.attempts[i].outcome = "ok" => InstalledIn(run.attempts[i].target)
              /\ run.attempts[i].outcome = "skip" =>
                    /\ Names("Warning", run.attempts[i].target)
                    /\ world.targets[run.attempts[i].target] =
                          before.targets[run.attempts[i].target]

\* Two targets, the first without package.json: the package is installed in
\* the second and the run succeeds.
C9_Witness ==
    /\ WorkspaceRun
    /\ run.js_targets = <<"bare", "app">>
    /\ run.result = "success"
    /\ InstalledIn("app")
    /\ ~before.targets["app"].protolake[FlatName(run.package_name)].exists

\* C10: after a successful file-mode run the cache directory of the
\* package's name and version holds exactly the files of the bundle, nothing
\* of an earlier publish, and every other cache directory is as it was; so
\* publishing the bundle again changes nothing.
C10_FileModeReplaces ==
    (Exited /\ Reached("file") /\ run.result = "success") =>
        LET dest == FileDest(run.package_name, run.version)
        IN  /\ world.npmPackages[dest] = Dir(run.bundle.files)
            /\ \A d \in FileDests \ {dest} : world.npmPackages[d] = before.npmPackages[d]
            /\ before.npmPackages[dest] = Dir(run.bundle.files) => world = before

\* A bundle was published over another bundle's files at the same key.
C10_Witness ==
    /\ Exited /\ Reached("file") /\ run.result = "success"
    /\ before.npmPackages[FileDest(run.package_name, run.version)].exists
    /\ before.npmPackages[FileDest(run.package_name, run.version)].files
          # run.bundle.files

\* C12: a run in which an external process (tar, npm link, npm config set,
\* npm publish, the upload client) exited non-zero does not end in success.
C12_NonZeroExitFails ==
    (Exited /\ run.nonzero # {}) => run.result # "success"

\* C13: with NPM_PUBLISH_MODE unset a run of an npm publisher dispatches as
\* mode skip: it ends in success with no link, copy, install or push.
C13_UnsetModeSkips ==
    (Exited /\ run.publisher \in Publishers /\ run.envMode = Unset
            /\ run.publish_mode # "") =>
        /\ run.publish_mode = "skip"
        /\ run.result = "success"
        /\ run.events = <<>>
        /\ world = before

-----------------------------------------------------------------------------
(* Claims about the persisted files.                                       *)

LatestCall == run.attempts[Len(run.attempts)]

\* The latest call repeated the call before it and both succeeded.
Repeated ==
    /\ Len(run.attempts) >= 2
    /\ run.attempts[Len(run.attempts) - 1].op = LatestCall.op
    /\ run.attempts[Len(run.attempts) - 1] = LatestCall
    /\ LatestCall.outcome = "ok"

\* C11: when install_package_to_workspace or "workspace add" has succeeded on
\* a target and is run again with the same arguments, the second run leaves
\* the target as the first left it, with the workspace glob once in the
\* manifest's list, the ignore entry once in .gitignore and, for an install,
\* the installed copy equal to the package.
C11_InstallIdempotent ==
    (Repeated /\ LatestCall.op \in {"install", "workspace add"}) =>
        LET target == world.targets[LatestCall.target]
        IN  /\ target = before.targets[LatestCall.target]
            /\ Count(target.manifest.items, WorkspaceGlob) = 1
            /\ Count(target.gitignore.lines, IgnoreEntry) = 1
            /\ LatestCall.op = "install" =>
                  target.protolake[FlatName(LatestCall.package_name)]
                      = Dir(LatestCall.files)

\* A package was installed twice into a target whose manifest had the
\* packages-object form without the glob.
C11_Witness ==
    /\ Repeated
    /\ LatestCall.op = "install"
    /\ world.targets[LatestCall.target].manifest.shape = "dict"
    /\ Len(world.targets[LatestCall.target].manifest.items) = 2

\* The document the latest call found malformed, if it did.
MalformedLedger ==
    /\ run.publisher \in {"maven_publisher", "publisher_utils_generated"}
    /\ prevLedger[LatestCall.target].exists
    /\ ~prevLedger[LatestCall.target].wellFormed

MalformedManifest ==
    /\ run.publisher = "pkg_editor"
    /\ LET manifest == before.targets[LatestCall.target].manifest
       IN  \/ manifest.kind \in {"invalid", "nonobject"}
           \/ manifest.kind = "object" /\ manifest.shape = "other"
           \/ manifest.kind = "object" /\ manifest.shape = "dict"
                                       /\ manifest.packages = "other"

-----------------------------------------------------------------------------
(* Claims about the path normalizers.                                      *)

\* The path has the sandbox-output marker: 'bazel-out/' in front and a
\* '/bin/' segment.
HasSandboxMarker(path) ==
    /\ Len(path) >= 2 /\ path[1] = "bazel-out"
    /\ \E i \in 2..(Len(path) - 1) : path[i] = "bin"

\* What follows the first '/bin/'.
AfterSandboxMarker(path) ==
    LET i == CHOOSE k \in 2..(Len(path) - 1) :
                 path[k] = "bin" /\ \A j \in 2..(k - 1) : path[j] # "bin"
    IN  SubSeq(path, i + 1, Len(path))

\* C15: a path with the sandbox-output marker is normalized to what follows
\* the marker, and normalizing the result again leaves it as it is.
C15_NormalizeFixedPoint ==
    (run.pc = "stripped" /\ HasSandboxMarker(run.original)) =>
        /\ run.passes = 1 => run.path = AfterSandboxMarker(run.original)
        /\ run.passes = 2 => run.path = run.previous

\* The path has '_virtual_imports/' followed by <alias>/<rest> at segment i.
HasVirtualImport(path, i) ==
    /\ i + 2 <= Len(path)
    /\ path[i] = "_virtual_imports"
    /\ \A j \in 1..(i - 1) : path[j] \notin {"_virtual_imports", "x_virtual_imports"}
    /\ path[i + 1] # ""

\* C16: in every bundler a path with '_virtual_imports/<alias>/<rest>' is
\* normalized to exactly <rest>.
C16_VirtualImportRest ==
    (run.pc = "stripped" /\ run.passes = 1) =>
        \A i \in 1..Len(run.original) :
            HasVirtualImport(run.original, i) =>
                run.path = SubSeq(run.original, i + 2, Len(run.original))

-----------------------------------------------------------------------------
(* Claims about version resolution.                                        *)

\* The text has a "${" in it.
ContainsToken(text) ==
    \E i \in 1..(Len(text) - 1) : text[i] = "$" /\ text[i + 1] = "{"

\* C19: a version given as "${VAR:-default}" resolves to the value of VAR
\* when the environment sets VAR and to default when it does not, where that
\* value or default is itself free of "${".
C19_PlaceholderResolves ==
    run.pc = "resolved" =>
        \A n \in PlaceholderNames, d \in PlaceholderDefaults :
            LET isSet == n \in DOMAIN run.env /\ run.env[n].set
                chosen == IF isSet THEN run.env[n].value ELSE d
            IN  (run.version_arg = Placeholder(n, d) /\ ~ContainsToken(chosen)) =>
                    run.version = chosen

\* "${F:-1.2.3}" was resolved to "9.9.9" with F set to it.
C19_Witness ==
    /\ run.pc = "resolved"
    /\ run.version_arg = Placeholder(<<"F">>, <<"1", ".", "2", ".", "3">>)
    /\ run.env[<<"F">>] = SetTo(<<"9", ".", "9", ".", "9">>)
    /\ run.version = <<"9", ".", "9", ".", "9">>

\* C20: whatever the version argument and the environment, the resolved
\* version has no "${" in it, and a version that still has one after the
\* environment was consulted is replaced by 1.0.0 with a warning.
C20_NoPlaceholderSurvives ==
    run.pc = "resolved" =>
        /\ ~ContainsToken(run.version)
        /\ ContainsToken(run.expanded) =>
              /\ run.version = DefaultVersion
              /\ run.output # <<>>
        /\ ~ContainsToken(run.expanded) => run.version = run.expanded

\* The environment's value for the placeholder's variable was itself a
\* placeholder, and 1.0.0 was used.
C20_Witness ==
    /\ run.pc = "resolved"
    /\ run.version_arg = Placeholder(<<"F">>, <<"1">>)
    /\ ContainsToken(run.expanded)
    /\ run.version = DefaultVersion

-----------------------------------------------------------------------------
(* Claims about staging.                                                   *)

Staging == run.pc \in {"staging", "exited"} /\ run.publisher \in Stagers

LatestItem == run.items[Len(run.items)]

\* C17: a SourceSpec whose destination path is empty is rejected: nothing is
\* copied for it, the staged tree stays as it was and the run does not crash.
C17_EmptyDestRejected ==
    (Staging /\ run.items # <<>> /\ LatestItem.dest = EmptyPath) =>
        /\ LatestItem.outcome = "skipped"
        /\ run.files = run.prevFiles
        /\ run.result # "crash"

\* C18: a SourceSpec whose source does not exist is skipped with a warning
\* that names it, the run does not abort, and what was staged stays staged.
C18_MissingSourceSkipped ==
    (Staging /\ run.items # <<>> /\ LatestItem.spec.kind = "missing") =>
        /\ LatestItem.outcome = "skipped"
        /\ \E i \in 1..Len(run.output) :
              /\ run.output[i].level = "Warning"
              /\ LatestItem.spec.src \in run.output[i].names
        /\ run.result # "crash"
        /\ run.files = run.prevFiles

-----------------------------------------------------------------------------
(* Claims about the identity a created ledger carries.                     *)

\* C30: a ledger created by a recordVersion call names its pair: groupId is
\* the group id of the call (dotted ones included), artifactId its artifact id.
C30_CreatedLedgerNamesPair ==
    \A k \in LedgerKeys :
        \A path \in {MetadataPath(k[1], k[2]), LocalMetadataPath(k[1], k[2])} :
            (history # <<>> /\ LastCall.path = path /\ ~prevLedger[path].exists) =>
                /\ ledger[path].groupId = k[1]
                /\ ledger[path].artifactId = k[2]

-----------------------------------------------------------------------------
(* Claims about a failed workspace install.                                *)

\* C29: when install_package_to_workspace returns False for a target, the
\* target is as it was before the call: no package copy under protolake/,
\* the manifest and .gitignore unchanged.
C29_FailedInstallLeavesTarget ==
    (Exited /\ run.publisher = "pkg_editor" /\ run.attempts # <<>>
            /\ LatestCall.op = "install" /\ LatestCall.outcome = "error") =>
        world.targets[LatestCall.target] = before.targets[LatestCall.target]

-----------------------------------------------------------------------------
(* Claims about destination keys.                                          *)

\* The run published package_name at version by copying it somewhere.
Copied(mode) == Exited /\ Reached(mode) /\ run.result = "success"

\* C27: destination keys are injective, so a successful file, pack or
\* workspace publish of one (package name, version) pair leaves the cache
\* directory, the pack file and the install directory of every other pair
\* as they were.
C27_DestinationInjective ==
    \A n \in PackageNames, v \in PackageVersions :
        <<n, v>> # <<run.package_name, run.version>> =>
            /\ Copied("file") =>
                  world.npmPackages[FileDest(n, v)] = before.npmPackages[FileDest(n, v)]
            /\ Copied("pack") =>
                  world.npmPacks[PackName(n, v)] = before.npmPacks[PackName(n, v)]
            /\ Copied("workspace") =>
                  \A d \in TargetDirs :
                      world.targets[d].protolake[FlatName(n)]
                          = before.targets[d].protolake[FlatName(n)]

-----------------------------------------------------------------------------
(* Claims about concurrent recordVersion calls.                            *)

\* Two calls on one ledger, for distinct versions, have both completed.
BothRecorded(c, d) ==
    /\ c # d
    /\ run[c].pc = "done" /\ run[d].pc = "done"
    /\ run[c].path = run[d].path
    /\ run[c].version # run[d].version

\* C26: when two concurrent recordVersion calls for distinct versions of one
\* (group, artifact) pair have completed, the ledger lists both versions.
C26_NoRecordedVersionLost ==
    \A c, d \in Callers :
        BothRecorded(c, d) =>
            {run[c].version, run[d].version} \subseteq Listed(ledger[run[c].path])

-----------------------------------------------------------------------------
(* Claims about concurrent publisher runs.                                 *)

\* C25: concurrent runs for different packages do not affect each other: a
\* local-registry run that configured its registry and pushed successfully
\* has pushed its package to that registry, as it does when it runs alone.
C25_RunsIsolated ==
    \A c \in Callers :
        (run[c].pc = "exited" /\ run[c].configured /\ run[c].result = "success") =>
            /\ run[c].destination = run[c].registry_url
            /\ Coordinates(run[c]) \in world.registries[run[c].registry_url]

-----------------------------------------------------------------------------
(* Claims about archive and index order.                                   *)

\* C21: two bundling runs of one bundler over the same sources produce the
\* same staged tree, the same index files and the same archive member order.
C21_ArchiveDeterministic ==
    \A a, b \in world.archives :
        (a.stager = b.stager /\ a.sources = b.sources) => a = b

\* The segments of the re-exported module paths, in byte order.
SegmentOrder == <<"alpha_pb", "index", "js", "user_grpc_web_pb", "zeta_pb">>

SegmentBefore(m, n) ==
    \E i, j \in 1..Len(SegmentOrder) :
        SegmentOrder[i] = m /\ SegmentOrder[j] = n /\ i < j

\* Lexicographic order of two paths.
PathBefore(p, q) ==
    \/ Len(p) < Len(q) /\ SubSeq(q, 1, Len(p)) = p
    \/ \E k \in 1..Len(p) :
           /\ k <= Len(q)
           /\ SubSeq(p, 1, k - 1) = SubSeq(q, 1, k - 1)
           /\ SegmentBefore(p[k], q[k])

\* C22: the index file of a subdirectory re-exports every .js file staged
\* under it exactly once, in lexicographic path order.
C22_IndexSortedComplete ==
    (run.pc \in {"indexed", "exited"} /\ run.publisher = "npm_bundler") =>
        \A d \in Subdirs :
            LET exports == run.index[d]
                units == {f \in run.files :
                             /\ IsPrefix(d, f) /\ IsJs(f[Len(f)])
                             /\ f # d \o <<"index.js">>}
            IN  /\ Len(exports) = Cardinality(units)
                /\ \A f \in units :
                      \E i \in 1..Len(exports) :
                          exports[i] = WithName(SubSeq(f, Len(d) + 1, Len(f)),
                                                JsUnit(f[Len(f)]).stem)
                /\ \A i, j \in 1..Len(exports) :
                      i < j => PathBefore(exports[i], exports[j])

-----------------------------------------------------------------------------
(* Claims about the wheel's package markers.                               *)

WheelRun == run.pc # "idle" /\ run.publisher = "wheel_builder"

\* The path lies inside the staging root.
InsideRoot(loc) == loc = <<>> \/ loc[1] \notin {"..", "/"}

\* C23: when the wheel stager has finished, every directory between the
\* staging root and a staged file, Python file or proto source, holds an
\* __init__.py, and no marker was created twice.
C23_EveryAncestorMarked ==
    (WheelRun /\ run.pc = "exited" /\ run.result = "success") =>
        /\ \A f \in run.files :
              InsideRoot(f) =>
                  \A k \in 1..(Len(f) - 1) :
                      Append(SubSeq(f, 1, k), "__init__.py") \in run.files
        /\ NoDuplicates(run.created)

\* C28: the marker loop terminates (it is never at a directory whose parent
\* is that directory itself, where it would run for ever), and every marker
\* it creates lies inside the staging root.
C28_MarkerLoopStaysInside ==
    WheelRun =>
        /\ run.pc = "markers" => (run.current = <<>> \/ Parent(run.current) # run.current)
        /\ \A i \in 1..Len(run.created) : InsideRoot(run.created[i])

-----------------------------------------------------------------------------
(* Claims about the whole pipeline.                                        *)

PipelineRun == run.pc # "idle" /\ run.publisher \in NpmStagers

\* Three SourceSpecs were staged: two present and copied, one missing.
TwoPresentOneMissing ==
    /\ Len(run.items) = 3
    /\ Cardinality({i \in 1..3 : run.items[i].spec.kind = "missing"}) = 1
    /\ Cardinality({PathJoin(run.items[i].dest) :
                       i \in {j \in 1..3 : run.items[j].outcome = "copied"}}) = 2

\* C24: staging two present SourceSpecs and a missing one, archiving and
\* publishing in mode 'file' ends with the cache directory of the name and
\* version holding the two present files and the generated manifest and
\* nothing else; the missing one does not end the run.
C24_EndToEndCache ==
    PipelineRun =>
        /\ (run.pc = "published" /\ TwoPresentOneMissing) =>
              world.npmPackages[run.dest] =
                  Dir({PathJoin(run.items[i].dest) :
                          i \in {j \in 1..3 : run.items[j].outcome = "copied"}}
                      \cup {<<"package.json">>})
        /\ ~(/\ run.pc = "exited" /\ run.result = "crash"
             /\ run.items # <<>> /\ LatestItem.spec.kind = "missing")

=============================================================================
